---- MODULE Spec2Model ----
(***************************************************************************)
(* The hierarchical file viewer of scholarthynk-api: the "notes"           *)
(* collection (folders and notes of every user, stored flat, linked by     *)
(* parentFolder and children) and the request handlers that work on it:    *)
(*   fileViewerController  getFVItems, newFolder, renameFVItem,            *)
(*                         deleteFVItem        (src/unnamed/part_005,      *)
(*                         latest revision, lines 295-628)                 *)
(*   noteController        getNote, newNote, updateNote                    *)
(*                         (src/src/controllers/noteController.js)         *)
(* Every handler is a sequence of awaited store calls; no store call fails. *)
(* A handler is an operator from the collection and the request to the set *)
(* of its possible outcomes; the set has more than one element only where  *)
(* findOne has several matching documents (the store returns any of them)  *)
(* or where the outcome depends on the version of the web framework.       *)
(*   Spec        one owner; a request runs to completion before the next   *)
(*   SpecOwners  the same for two owners whose trees use the same names    *)
(*   SpecCalls   newFolder, newNote, renameFVItem, updateNote of one owner *)
(*               interleaved, every awaited store call one step            *)
(***************************************************************************)
EXTENDS Integers, Sequences, FiniteSets, Bags, TLC

\* ---------------------------------------------------------------- bounds
MaxId == 3          \* documents ever inserted (ObjectIds are 1..MaxId)
MaxPathLen == 2     \* folder segments after "root" in a request path
MaxInFlight == 2    \* requests that are under way at the same time
MaxCallId == 2      \* documents ever inserted while requests interleave

\* ------------------------------------------------------------- constants
Null == 0           \* JS null, and undefined where a query value is built
NoResponse == 0     \* the handler returned without sending a response
Running == -1       \* the handler has not returned yet
Undefined == "<undefined>"   \* a string field missing from the request body
Root == "root"
Untitled == "Untitled"

Users == {"u1", "u2"}
FolderNames == {"a", "b"}
Ids == 1..MaxId
Times == {0, 1}         \* the instants new Date() returns
Contents == {"2+2=4"}

VARIABLES
    items,      \* the notes collection: ObjectId -> document
    nextId,     \* the next ObjectId the store assigns
    procs       \* the requests under way, each at its next store call (a bag)

vars == <<items, nextId, procs>>

\* ------------------------------------------------------------ the schema
\* models/Note.js: the document a handler builds with new Note({...})
NewDoc(u, n, p, ty, t) ==
    [userId |-> u, name |-> n, parentFolder |-> p, type |-> ty,
     lastEdited |-> t, children |-> <<>>, fileContent |-> ""]

\* --------------------------------------------------- requests, responses
\* A request: the route, req.user, and the body.  oldName stands for the
\* one name the body carries (folder of getFVItems and deleteFVItem,
\* folderName, oldName, oldTitle, title of getNote), newName for the second
\* one (newName, title of updateNote); now is what new Date() returns.
Request(route, u, pi, n1, n2, text, t) ==
    [op |-> route, user |-> u, hasPath |-> pi.hasPath, path |-> pi.path,
     oldName |-> n1, newName |-> n2, content |-> text, now |-> t]

\* a deletion under way: the collection and the store calls issued so far
Progress(store, r, w) == [items |-> store, reads |-> r, writes |-> w]

\* the inner for-of loop of getFVItems: the findOne calls issued, did it
\* throw, the child it found
Scanned(r, th, next) == [reads |-> r, threw |-> th, nextFolderId |-> next]

\* the while loop of getFVItems: the findOne calls issued, did it throw,
\* the folder it ended in
Walked(r, th, cur) == [reads |-> r, threw |-> th, currentFolder |-> cur]

\* a resolver loop: the findOne calls issued, was every segment found, the
\* ids pushed, the segment that was not found
Resolved(r, ok, ids, seg) ==
    [reads |-> r, found |-> ok, folderIds |-> ids, segment |-> seg]

\* What a handler leaves behind: the collection, the store calls it issued,
\* the HTTP status and what the response body carries (the segment named
\* by a 404, the documents listed), the parent the handler resolved and the
\* document it found or made.
Resp(store, st, r, w) ==
    [items |-> store, reads |-> r, writes |-> w, segment |-> "", status |-> st,
     parent |-> Null, target |-> Null, folders |-> <<>>, files |-> <<>>]

\* A request under way: the locals of its handler and the store call it
\* issues next.  index is the position in the path of the resolver loop (from
\* 1), parent the parent document found by id, target the document found by
\* name or just inserted.
Proc(r, c, i, ids, par, tgt) ==
    [folderIds |-> ids, parent |-> par, target |-> tgt, req |-> r, call |-> c,
     index |-> i]

\* one store call made: the collection, the status answered (Running when the
\* handler goes on), and the request as it goes on
Stepped(store, st, p) == [items |-> store, status |-> st, proc |-> p]

\* ------------------------------------------------------- store primitives
\* Note.findOne(filter): any matching document, null when there is none
FindOne(matches) == IF matches = {} THEN {Null} ELSE matches

\* filter {userId, _id}
ById(store, u, id) ==
    {i \in DOMAIN store : i = id /\ store[i].userId = u}

\* filter {userId, type: "folder", name, parentFolder}
FolderByName(store, u, name, parent) ==
    {i \in DOMAIN store : /\ store[i].userId = u
                          /\ store[i].type = "folder"
                          /\ store[i].name = name
                          /\ store[i].parentFolder = parent}

\* filter {userId, name, parentFolder}: a document of either type
ItemByName(store, u, name, parent) ==
    {i \in DOMAIN store : /\ store[i].userId = u
                          /\ store[i].name = name
                          /\ store[i].parentFolder = parent}

\* filter {userId, name, parentFolder, type: "note"}
NoteByName(store, u, name, parent) ==
    {i \in DOMAIN store : /\ store[i].userId = u
                          /\ store[i].type = "note"
                          /\ store[i].name = name
                          /\ store[i].parentFolder = parent}

\* filter {userId, name, type: "note"}: a note in any folder
NoteByNameAnywhere(store, u, name) ==
    {i \in DOMAIN store : /\ store[i].userId = u
                          /\ store[i].type = "note"
                          /\ store[i].name = name}

\* doc.save(): the store assigns the ObjectId
Insert(store, id, doc) ==
    [i \in DOMAIN store \cup {id} |-> IF i = id THEN doc ELSE store[i]]

\* Note.updateOne({userId, _id}, {$push: {children: child}})
Push(store, u, id, child) ==
    IF ById(store, u, id) = {} THEN store
    ELSE [store EXCEPT ![id].children = Append(@, child)]

RECURSIVE Without(_, _)
Without(seq, x) ==
    IF seq = <<>> THEN <<>>
    ELSE IF Head(seq) = x THEN Without(Tail(seq), x)
    ELSE <<Head(seq)>> \o Without(Tail(seq), x)

\* Note.updateOne({userId, _id}, {$pull: {children: child}})
Pull(store, u, id, child) ==
    IF ById(store, u, id) = {} THEN store
    ELSE [store EXCEPT ![id].children = Without(@, child)]

\* Note.deleteOne({userId, _id})
DeleteOne(store, u, id) ==
    IF ById(store, u, id) = {} THEN store
    ELSE [i \in DOMAIN store \ {id} |-> store[i]]



\* ------------------------------------------------------ path resolution
\* folderIds[folderIds.length - 1], undefined (sent as null) when empty
LastId(folderIds) ==
    IF folderIds = <<>> THEN Null ELSE folderIds[Len(folderIds)]

\* The for-of loop of newNote (the same loop, word for word, stands in
\* newFolder 397-413, updateNote 240-256 and getNote 99-115): a "root"
\* segment pushes null, any other segment is looked up as a folder of the
\* caller under the last id pushed.  k is the next segment (from 1).
\* Result: whether every segment was found, the ids, the segment that
\* failed, and the findOne calls issued.
RECURSIVE ResolveSegments(_, _, _, _, _, _)
ResolveSegments(store, u, path, k, folderIds, reads) ==
    IF k > Len(path)
    THEN {Resolved(reads, TRUE, folderIds, "")}
    ELSE IF path[k] = Root
    THEN ResolveSegments(store, u, path, k + 1, Append(folderIds, Null), reads)
    ELSE UNION {
        IF m = Null
        THEN {Resolved(reads + 1, FALSE, folderIds, path[k])}
        ELSE ResolveSegments(store, u, path, k + 1, Append(folderIds, m), reads + 1)
        : m \in FindOne(FolderByName(store, u, path[k], LastId(folderIds))) }

\* The index loop of renameFVItem (deleteFVItem 545-559 is the same loop):
\* it starts at the second element whatever the first one is, and looks
\* every later element up as a folder name, "root" included.  k is the
\* position in path (from 1), so the JS index is k - 1.
RECURSIVE ResolveByIndex(_, _, _, _, _, _)
ResolveByIndex(store, u, path, k, folderIds, reads) ==
    IF k > Len(path)
    THEN {Resolved(reads, TRUE, folderIds, "")}
    ELSE LET parentId == IF k = 2 THEN Null ELSE folderIds[k - 2]
         IN UNION {
            IF m = Null
            THEN {Resolved(reads + 1, FALSE, folderIds, path[k])}
            ELSE ResolveByIndex(store, u, path, k + 1, Append(folderIds, m), reads + 1)
            : m \in FindOne(FolderByName(store, u, path[k], parentId)) }

\* ------------------------------------------------------------- newFolder
\* NewFolderNameRejected with the first check only
NewFolderNameRejectedIfEmpty(folderName) == folderName = ""

\* the two name checks that answer 400
NewFolderNameRejected(folderName) ==
    folderName = "" \/ folderName = Root

\* LinkChild with the push on the child itself: the child lists itself
LinkChildToItself(store, u, parentFolder, child) ==
    IF parentFolder # Null THEN Push(store, u, child, child) ELSE store

\* LinkChild without the updateOne: the child is inserted, the parent's
\* children are left as they were
LinkChildSkipped(store, u, parentFolder, child) == store

\* the append to the parent's children after the insert (newFolder 439-444,
\* newNote 194-199): skipped when the parent document is null
LinkChild(store, u, parentFolder, child) ==
    IF parentFolder # Null THEN Push(store, u, parentFolder, child) ELSE store

\* FolderExists without type in the filter: an Item of either type
FolderExistsOfAnyType(store, u, folderName, parentFolder) ==
    ItemByName(store, u, folderName, parentFolder)

\* filter of the folderExists query
FolderExists(store, u, folderName, parentFolder) ==
    FolderByName(store, u, folderName, parentFolder)

\* newFolder from line 410 on, for one result r of the resolver loop.  A
\* segment that is not found ends in resp.status({error: ...}): the status
\* is set to an object and nothing is sent (Express 4), or status() throws
\* and the catch block answers 500 (Express 5).
NewFolderAt(store, id, u, r, folderName, now) ==
    IF ~r.found
    THEN {Resp(store, s, r.reads, 0) : s \in {NoResponse, 500}}
    ELSE LET parentFolderId == LastId(r.folderIds)
             parentFolder == IF ById(store, u, parentFolderId) = {} THEN Null
                             ELSE parentFolderId
             doc == NewDoc(u, folderName, parentFolder, "folder", now)
             saved == Insert(store, id, doc)
         IN IF FolderExists(store, u, folderName, parentFolder) # {}
            THEN {[Resp(store, 409, r.reads + 2, 0) EXCEPT !.parent = parentFolder]}
            ELSE {[Resp(LinkChild(saved, u, parentFolder, id), 200, r.reads + 2,
                        IF parentFolder # Null THEN 2 ELSE 1)
                   EXCEPT !.parent = parentFolder, !.target = id]}

NewFolder(store, id, req) ==
    IF req.oldName = Undefined THEN {Resp(store, 500, 0, 0)}  \* folderName.length throws
    ELSE IF NewFolderNameRejected(req.oldName) THEN {Resp(store, 400, 0, 0)}
    ELSE IF ~req.hasPath THEN {Resp(store, 500, 0, 0)}     \* for-of over undefined throws
    ELSE UNION {NewFolderAt(store, id, req.user, r, req.oldName, req.now)
                : r \in ResolveSegments(store, req.user, req.path, 1, <<>>, 0)}

\* --------------------------------------------------------------- newNote
\* newNote with a sibling check: 409 when a Note named "Untitled" is there
NewNoteAtUnlessThere(store, id, u, r, now) ==
    IF ~r.found
    THEN {[Resp(store, 404, r.reads, 0) EXCEPT !.segment = r.segment]}
    ELSE IF NoteByName(store, u, Untitled, LastId(r.folderIds)) # {}
    THEN {Resp(store, 409, r.reads + 2, 0)}
    ELSE LET parentFolder == IF ById(store, u, LastId(r.folderIds)) = {} THEN Null
                             ELSE LastId(r.folderIds)
             saved == Insert(store, id, NewDoc(u, Untitled, parentFolder, "note", now))
         IN {[Resp(LinkChild(saved, u, parentFolder, id), 200, r.reads + 2,
                   IF parentFolder # Null THEN 2 ELSE 1)
              EXCEPT !.parent = parentFolder, !.target = id]}

NewNoteAt(store, id, u, r, now) ==
    IF ~r.found
    THEN {[Resp(store, 404, r.reads, 0) EXCEPT !.segment = r.segment]}
    ELSE LET parentFolderId == LastId(r.folderIds)
             parentFolder == IF ById(store, u, parentFolderId) = {} THEN Null
                             ELSE parentFolderId
             doc == NewDoc(u, Untitled, IF parentFolder # Null THEN parentFolderId ELSE Null,
                           "note", now)
             saved == Insert(store, id, doc)
         IN {[Resp(LinkChild(saved, u, parentFolder, id), 200, r.reads + 1,
                   IF parentFolder # Null THEN 2 ELSE 1)
              EXCEPT !.parent = parentFolder, !.target = id]}

NewNote(store, id, req) ==
    IF ~req.hasPath THEN {Resp(store, 400, 0, 0)}
    ELSE UNION {NewNoteAt(store, id, req.user, r, req.now)
                : r \in ResolveSegments(store, req.user, req.path, 1, <<>>, 0)}

\* ------------------------------- newFolder and newNote, a store call failing
\* A store call of a creation throws (the connection is lost, the store
\* times out): the handler stops in its catch block with 500 (newFolder
\* 446-449, newNote 202-205).  A call up to the save leaves the collection
\* as it was; the updateOne after the save leaves the document saved.

\* CreationFailing with the saved document deleted again in the catch block
CreationFailingRolledBack(store, id, reads, r, doc, exists) ==
    {Resp(store, 500, 0, 0)}

\* doc is what the handler saves under the parent r resolves to, exists the
\* documents that make it answer 409 before the save, reads the findOne
\* calls up to the save
CreationFailing(store, id, reads, r, doc, exists) ==
    {Resp(store, 500, 0, 0)}
        \cup IF r.found /\ exists = {} /\ doc.parentFolder # Null
             THEN {[Resp(Insert(store, id, doc), 500, reads, 1)
                    EXCEPT !.parent = doc.parentFolder, !.target = id]}
             ELSE {}

\* the parentFolder of the document a creation saves: the id the loop ended
\* on when a document of the caller has it, null otherwise
ParentOf(store, u, r) ==
    IF ById(store, u, LastId(r.folderIds)) = {} THEN Null ELSE LastId(r.folderIds)

NewFolderFailing(store, id, req) ==
    IF req.oldName = Undefined \/ NewFolderNameRejected(req.oldName) \/ ~req.hasPath
    THEN {}
    ELSE UNION {LET parentFolder == ParentOf(store, req.user, r)
                IN CreationFailing(store, id, r.reads + 2, r,
                       NewDoc(req.user, req.oldName, parentFolder, "folder", req.now),
                       FolderExists(store, req.user, req.oldName, parentFolder))
                : r \in ResolveSegments(store, req.user, req.path, 1, <<>>, 0)}

NewNoteFailing(store, id, req) ==
    IF ~req.hasPath THEN {}
    ELSE UNION {CreationFailing(store, id, r.reads + 1, r,
                    NewDoc(req.user, Untitled, ParentOf(store, req.user, r), "note", req.now),
                    {})
                : r \in ResolveSegments(store, req.user, req.path, 1, <<>>, 0)}


\* ------------------------------------------------------------ getNotePath
\* The while loop of getNotePath (noteController.js:35-41): from
\* currentFolderId up, one findOne per round, until the id is null or has no
\* document.  rounds is the number of rounds left to look at; the result
\* tells whether the loop has ended within them.
RECURSIVE ParentWalkEnds(_, _, _, _)
ParentWalkEnds(store, u, currentFolderId, rounds) ==
    IF currentFolderId = Null \/ ById(store, u, currentFolderId) = {} THEN TRUE
    ELSE IF rounds = 0 THEN FALSE
    ELSE ParentWalkEnds(store, u, store[currentFolderId].parentFolder, rounds - 1)

\* ---------------------------------------------------------- renameFVItem
\* RenameNameRejected letting every name through
RenameNameAccepted(newName) == FALSE

\* the name check that answers 400
RenameNameRejected(newName) == newName = Root

\* RenameTarget without userId in the filter: an Item of any user
RenameTargetOfAnyone(store, u, itemName, parentFolderId) ==
    {i \in DOMAIN store : /\ store[i].name = itemName
                          /\ store[i].parentFolder = parentFolderId}

\* filter of the item query: the document to rename
RenameTarget(store, u, itemName, parentFolderId) ==
    ItemByName(store, u, itemName, parentFolderId)

\* ItemExists with type: "folder" in the filter
ItemExistsAsFolder(store, u, newName, parentFolderId) ==
    FolderByName(store, u, newName, parentFolderId)

\* ItemExists finding nothing: the rename goes ahead whatever the siblings
ItemExistsNever(store, u, newName, parentFolderId) == {}

\* filter of the itemExists query
ItemExists(store, u, newName, parentFolderId) ==
    ItemByName(store, u, newName, parentFolderId)

\* SetName that also sets lastEdited, to the instant after the stored one
SetNameAndStamp(store, id, newName) ==
    IF id \in DOMAIN store
    THEN [store EXCEPT ![id].name = newName, ![id].lastEdited = @ + 1]
    ELSE store

\* Note.updateOne({_id: item._id}, {$set: {name: newName}})
SetName(store, id, newName) ==
    IF id \in DOMAIN store THEN [store EXCEPT ![id].name = newName] ELSE store

\* RenameAt with the updateOne ahead of the itemExists query
RenameAtSetFirst(store, u, r, itemName, newName) ==
    IF ~r.found
    THEN {[Resp(store, 404, r.reads, 0) EXCEPT !.segment = r.segment]}
    ELSE LET parentFolderId == LastId(r.folderIds)
         IN { IF item = Null
              THEN [Resp(store, 404, r.reads + 1, 0) EXCEPT !.parent = parentFolderId]
              ELSE IF ItemExists(store, u, newName, parentFolderId) # {}
              THEN [Resp(SetName(store, item, newName), 409, r.reads + 2, 1)
                    EXCEPT !.parent = parentFolderId, !.target = item]
              ELSE [Resp(SetName(store, item, newName), 200, r.reads + 2, 1)
                    EXCEPT !.parent = parentFolderId, !.target = item]
              : item \in FindOne(RenameTarget(store, u, itemName, parentFolderId)) }

RenameAt(store, u, r, itemName, newName) ==
    IF ~r.found
    THEN {[Resp(store, 404, r.reads, 0) EXCEPT !.segment = r.segment]}
    ELSE LET parentFolderId == LastId(r.folderIds)
         IN { IF item = Null
              THEN [Resp(store, 404, r.reads + 1, 0) EXCEPT !.parent = parentFolderId]
              ELSE IF ItemExists(store, u, newName, parentFolderId) # {}
              THEN [Resp(store, 409, r.reads + 2, 0)
                    EXCEPT !.parent = parentFolderId, !.target = item]
              ELSE [Resp(SetName(store, item, newName), 200, r.reads + 2, 1)
                    EXCEPT !.parent = parentFolderId, !.target = item]
              : item \in FindOne(RenameTarget(store, u, itemName, parentFolderId)) }

RenameFVItem(store, req) ==
    IF RenameNameRejected(req.newName) THEN {Resp(store, 400, 0, 0)}
    ELSE IF ~req.hasPath THEN {Resp(store, 500, 0, 0)}   \* parentPath.length throws
    ELSE UNION {RenameAt(store, req.user, r, req.oldName, req.newName)
                : r \in ResolveByIndex(store, req.user, req.path, 2, <<>>, 0)}

\* ---------------------------------------------------------- deleteFVItem
\* the name check that answers 400
DeleteNameRejected(itemName) == itemName = Root

\* DeleteChild without the recursion: a child is deleted with deleteOne
\* whatever its type, its own children stay
DeleteChildOnly(d, u, childId) ==
    LET d1 == [d EXCEPT !.reads = @ + 1]
    IN IF ById(d.items, u, childId) = {} THEN d1
       ELSE [d1 EXCEPT !.items = DeleteOne(@, u, childId), !.writes = @ + 1]

\* One child of the folder being deleted (the body of the for-of loop of
\* deleteFolderRecursively): re-read, skipped when gone, a folder deleted
\* recursively, a note deleted.  d carries the collection and the store
\* calls issued so far.
RECURSIVE DeleteFolderRecursively(_, _, _)
DeleteChild(d, u, childId) ==
    LET d1 == [d EXCEPT !.reads = @ + 1]
    IN IF ById(d.items, u, childId) = {} THEN d1
       ELSE IF d.items[childId].type = "folder"
       THEN DeleteFolderRecursively(d1, u, childId)
       ELSE [d1 EXCEPT !.items = DeleteOne(@, u, childId), !.writes = @ + 1]

RECURSIVE DeleteChildren(_, _, _, _)
\* DeleteChildren with a break at the first child that has no document
DeleteChildrenUntilMissing(d, u, children, k) ==
    IF k > Len(children) \/ ById(d.items, u, children[k]) = {} THEN d
    ELSE DeleteChildren(DeleteChild(d, u, children[k]), u, children, k + 1)

DeleteChildren(d, u, children, k) ==
    IF k > Len(children) THEN d
    ELSE DeleteChildren(DeleteChild(d, u, children[k]), u, children, k + 1)

\* deleteFolderRecursively(folderId): the children of the folder as read at
\* entry, then the pull from the parent, then the folder itself
DeleteFolderRecursively(d, u, folderId) ==
    LET d1 == [d EXCEPT !.reads = @ + 1]
    IN IF ById(d.items, u, folderId) = {} THEN d1
       ELSE LET folder == d.items[folderId]
                d2 == DeleteChildren(d1, u, folder.children, 1)
                d3 == IF folder.parentFolder # Null
                      THEN [d2 EXCEPT !.items = Pull(@, u, folder.parentFolder, folderId),
                                      !.writes = @ + 1]
                      ELSE d2
            IN [d3 EXCEPT !.items = DeleteOne(@, u, folderId), !.writes = @ + 1]

\* the branch for a note: the document, then the pull from its parent
DeleteNote(d, u, noteId) ==
    LET note == d.items[noteId]
        d1 == [d EXCEPT !.items = DeleteOne(@, u, noteId), !.writes = @ + 1]
    IN IF note.parentFolder # Null
       THEN [d1 EXCEPT !.items = Pull(@, u, note.parentFolder, noteId), !.writes = @ + 1]
       ELSE d1

DeleteAt(store, u, r, itemName) ==
    IF ~r.found
    THEN {[Resp(store, 404, r.reads, 0) EXCEPT !.segment = r.segment]}
    ELSE LET parentId == LastId(r.folderIds)   \* currentFolder ? currentFolder._id : null
             d0 == Progress(store, r.reads + 1, 0)
         IN { IF targetItem = Null
              THEN [Resp(store, 404, r.reads + 1, 0) EXCEPT !.parent = parentId]
              ELSE LET d == IF store[targetItem].type = "note"
                            THEN DeleteNote(d0, u, targetItem)
                            ELSE DeleteFolderRecursively(d0, u, targetItem)
                   IN [Resp(d.items, 200, d.reads, d.writes)
                       EXCEPT !.parent = parentId, !.target = targetItem]
              : targetItem \in FindOne(ItemByName(store, u, itemName, parentId)) }

DeleteFVItem(store, req) ==
    IF DeleteNameRejected(req.oldName) THEN {Resp(store, 400, 0, 0)}
    ELSE IF ~req.hasPath THEN {Resp(store, 500, 0, 0)}   \* path.length throws
    ELSE UNION {DeleteAt(store, req.user, r, req.oldName)
                : r \in ResolveByIndex(store, req.user, req.path, 2, <<>>, 0)}

\* ------------------------------------- deleteFVItem, store write by store write
\* The writes of the deletion of targetItem, one after the other: w is the
\* sequence of the collections so far, the collection the deletion started
\* from first, the collection after the latest write last.
Latest(w) == w[Len(w)]

RECURSIVE DeleteFolderRecursivelyWrites(_, _, _)
\* the body of the for-of loop of deleteFolderRecursively
DeleteChildWrites(w, u, childId) ==
    IF ById(Latest(w), u, childId) = {} THEN w
    ELSE IF Latest(w)[childId].type = "folder"
    THEN DeleteFolderRecursivelyWrites(w, u, childId)
    ELSE Append(w, DeleteOne(Latest(w), u, childId))

RECURSIVE DeleteChildrenWrites(_, _, _, _)
DeleteChildrenWrites(w, u, children, k) ==
    IF k > Len(children) THEN w
    ELSE DeleteChildrenWrites(DeleteChildWrites(w, u, children[k]), u, children, k + 1)

\* DeleteFolderRecursivelyWrites with the deleteOne of the folder ahead of
\* its children and of the pull
DeleteFolderFirstWrites(w, u, folderId) ==
    IF ById(Latest(w), u, folderId) = {} THEN w
    ELSE LET folder == Latest(w)[folderId]
             w1 == Append(w, DeleteOne(Latest(w), u, folderId))
             w2 == DeleteChildrenWrites(w1, u, folder.children, 1)
         IN IF folder.parentFolder # Null
            THEN Append(w2, Pull(Latest(w2), u, folder.parentFolder, folderId))
            ELSE w2

\* deleteFolderRecursively(folderId): the writes for the children of the
\* folder as read at entry, the pull from the parent, the deleteOne
DeleteFolderRecursivelyWrites(w, u, folderId) ==
    IF ById(Latest(w), u, folderId) = {} THEN w
    ELSE LET folder == Latest(w)[folderId]
             w2 == DeleteChildrenWrites(w, u, folder.children, 1)
             w3 == IF folder.parentFolder # Null
                   THEN Append(w2, Pull(Latest(w2), u, folder.parentFolder, folderId))
                   ELSE w2
         IN Append(w3, DeleteOne(Latest(w3), u, folderId))

\* the branch for a note: the deleteOne, then the pull from its parent
DeleteNoteWrites(w, u, noteId) ==
    LET note == Latest(w)[noteId]
        w1 == Append(w, DeleteOne(Latest(w), u, noteId))
    IN IF note.parentFolder # Null
       THEN Append(w1, Pull(Latest(w1), u, note.parentFolder, noteId))
       ELSE w1

\* the collections that the deletion of targetItem goes through
DeleteWrites(store, u, targetItem) ==
    IF store[targetItem].type = "note"
    THEN DeleteNoteWrites(<<store>>, u, targetItem)
    ELSE DeleteFolderRecursivelyWrites(<<store>>, u, targetItem)

\* the documents that a deleteFVItem request can find as its targetItem
DeleteTargets(store, req) ==
    IF DeleteNameRejected(req.oldName) \/ ~req.hasPath THEN {}
    ELSE UNION {IF r.found
                THEN ItemByName(store, req.user, req.oldName, LastId(r.folderIds))
                ELSE {}
                : r \in ResolveByIndex(store, req.user, req.path, 2, <<>>, 0)}

\* A store call of the deletion throws (the connection is lost, the store
\* times out): the handler stops in its catch block with 500, the writes
\* made until then stay.
DeleteFVItemFailing(store, req) ==
    UNION {LET w == DeleteWrites(store, req.user, targetItem)
           IN {[Resp(w[j], 500, 0, j - 1) EXCEPT !.target = targetItem]
               : j \in 1..(Len(w) - 1)}
           : targetItem \in DeleteTargets(store, req)}


\* ------------------------------------------------------------ updateNote
\* UpdateTitleRejected with the first check only
UpdateTitleRejectedIfEmpty(noteTitle, oldNoteTitle) ==
    noteTitle = "" \/ oldNoteTitle = ""

\* the title checks that answer 400
UpdateTitleRejected(noteTitle, oldNoteTitle) ==
    noteTitle = "" \/ oldNoteTitle = "" \/ noteTitle = Root

\* UpdateTarget without type: "note" in the filter
UpdateTargetOfAnyType(store, u, path, folderIds, oldNoteTitle) ==
    IF Len(path) # 1
    THEN ItemByName(store, u, oldNoteTitle, LastId(folderIds))
    ELSE ItemByName(store, u, oldNoteTitle, Null)

\* The note query: under the last resolved id when the path has other than
\* one element, under null when it has exactly one.
UpdateTarget(store, u, path, folderIds, oldNoteTitle) ==
    IF Len(path) # 1
    THEN NoteByName(store, u, oldNoteTitle, LastId(folderIds))
    ELSE NoteByName(store, u, oldNoteTitle, Null)

\* SetNote without fileContent in the $set
SetNoteTitleOnly(store, u, id, noteContent, noteTitle, now) ==
    IF ById(store, u, id) = {} THEN store
    ELSE [store EXCEPT ![id].name = noteTitle, ![id].lastEdited = now]

\* Note.updateOne({userId, _id}, {$set: {fileContent, name, lastEdited}})
SetNote(store, u, id, noteContent, noteTitle, now) ==
    IF ById(store, u, id) = {} THEN store
    ELSE [store EXCEPT ![id].fileContent = noteContent,
                       ![id].name = noteTitle,
                       ![id].lastEdited = now]

UpdateAt(store, u, r, req) ==
    IF ~r.found
    THEN {[Resp(store, 404, r.reads, 0) EXCEPT !.segment = r.segment]}
    ELSE { IF note = Null
           THEN [Resp(store, 404, r.reads + 1, 0) EXCEPT !.parent = LastId(r.folderIds)]
           ELSE [Resp(SetNote(store, u, note, req.content, req.newName, req.now),
                      200, r.reads + 1, 1)
                 EXCEPT !.parent = LastId(r.folderIds), !.target = note]
           : note \in FindOne(UpdateTarget(store, u, req.path, r.folderIds, req.oldName)) }

UpdateNote(store, req) ==
    IF ~req.hasPath THEN {Resp(store, 400, 0, 0)}
    ELSE IF UpdateTitleRejected(req.newName, req.oldName) THEN {Resp(store, 400, 0, 0)}
    ELSE UNION {UpdateAt(store, req.user, r, req)
                : r \in ResolveSegments(store, req.user, req.path, 1, <<>>, 0)}

\* --------------------------------------------------------------- getNote
\* The note query: under the last resolved id when the path has other than
\* one element, in any folder when it has exactly one.
GetNoteTarget(store, u, path, folderIds, noteTitle) ==
    IF Len(path) # 1
    THEN NoteByName(store, u, noteTitle, LastId(folderIds))
    ELSE NoteByNameAnywhere(store, u, noteTitle)

GetNoteAt(store, u, r, req) ==
    IF ~r.found
    THEN {[Resp(store, 404, r.reads, 0) EXCEPT !.segment = r.segment]}
    ELSE { IF note = Null
           THEN [Resp(store, 404, r.reads + 1, 0) EXCEPT !.parent = LastId(r.folderIds)]
           ELSE [Resp(store, 200, r.reads + 1, 0)
                 EXCEPT !.parent = LastId(r.folderIds), !.target = note,
                        !.files = <<note>>]
           : note \in FindOne(GetNoteTarget(store, u, req.path, r.folderIds, req.oldName)) }

GetNote(store, req) ==
    IF ~req.hasPath THEN {Resp(store, 400, 0, 0)}
    ELSE UNION {GetNoteAt(store, req.user, r, req)
                : r \in ResolveSegments(store, req.user, req.path, 1, <<>>, 0)}

\* ------------------------------------------------------------ getFVItems
\* Note.find(filter): the matching documents, here in the order of insertion
RECURSIVE InOrder(_)
InOrder(S) ==
    IF S = {} THEN <<>>
    ELSE LET m == CHOOSE x \in S : \A y \in S : x <= y
         IN <<m>> \o InOrder(S \ {m})

\* filter {userId, parentFolder: null, type}
RootItems(store, u, type) ==
    {i \in DOMAIN store : /\ store[i].userId = u
                          /\ store[i].parentFolder = Null
                          /\ store[i].type = type}

\* path[j] for the JS index j: undefined past the end
PathAt(path, j) == IF j + 1 <= Len(path) THEN path[j + 1] ELSE Undefined

\* The inner for-of loop of the walk: the first child, in children order,
\* whose name is the wanted segment, whatever its type.  A child id with no
\* document makes folder.name throw.  k is the next child (from 1).
RECURSIVE ScanChildren(_, _, _, _, _)
ScanChildren(store, u, children, k, wanted) ==
    IF k > Len(children)
    THEN Scanned(Len(children), FALSE, Null)
    ELSE IF ById(store, u, children[k]) = {}
    THEN Scanned(k, TRUE, Null)
    ELSE IF store[children[k]].name = wanted
    THEN Scanned(k, FALSE, children[k])
    ELSE ScanChildren(store, u, children, k + 1, wanted)

\* The while loop: from currentFolder, one path element per round, until
\* the path is used up, the current folder has no children, or no child has
\* the wanted name.  The child found is read again as a folder, which gives
\* null for a note; null.children then throws, in the loop condition or
\* after the loop.  currentFolder is an id or Null.
RECURSIVE Walk(_, _, _, _, _, _)
Walk(store, u, path, pathIndex, currentFolder, reads) ==
    IF ~(pathIndex < Len(path))
    THEN Walked(reads, FALSE, currentFolder)
    ELSE IF currentFolder = Null
    THEN Walked(reads, TRUE, Null)
    ELSE IF Len(store[currentFolder].children) = 0
    THEN Walked(reads, FALSE, currentFolder)
    ELSE LET s == ScanChildren(store, u, store[currentFolder].children, 1,
                               PathAt(path, pathIndex))
         IN IF s.threw
            THEN Walked(reads + s.reads, TRUE, currentFolder)
            ELSE IF s.nextFolderId # Null
            THEN Walk(store, u, path, pathIndex + 1,
                      IF store[s.nextFolderId].type = "folder" THEN s.nextFolderId ELSE Null,
                      reads + s.reads + 1)
            ELSE Walked(reads + s.reads, FALSE, currentFolder)

\* children.forEach: the ids of one type, in children order
RECURSIVE OfType(_, _, _)
OfType(store, children, type) ==
    IF children = <<>> THEN <<>>
    ELSE (IF store[Head(children)].type = type THEN <<Head(children)>> ELSE <<>>)
         \o OfType(store, Tail(children), type)

\* getFVItems after firstFolder was found: the walk, then the listing of the
\* folder the walk ended in
ListFrom(store, u, path, firstFolder) ==
    LET w == Walk(store, u, path, 2, firstFolder, 1)
    IN IF w.threw \/ w.currentFolder = Null
       THEN Resp(store, 500, w.reads, 0)
       ELSE LET children == store[w.currentFolder].children
                n == Len(children)
            IN IF \E k \in 1..n : ById(store, u, children[k]) = {}
               THEN Resp(store, 500, w.reads + n, 0)    \* item.type on null throws
               ELSE [Resp(store, 200, w.reads + n, 0)
                     EXCEPT !.parent = w.currentFolder,
                            !.folders = OfType(store, children, "folder"),
                            !.files = OfType(store, children, "note")]

GetFVItems(store, req) ==
    IF ~req.hasPath \/ req.oldName = Undefined \/ req.oldName = ""
    THEN {Resp(store, 400, 0, 0)}
    ELSE IF req.oldName = Root
    THEN {[Resp(store, 200, 2, 0)
           EXCEPT !.folders = InOrder(RootItems(store, req.user, "folder")),
                  !.files = InOrder(RootItems(store, req.user, "note"))]}
    ELSE { IF firstFolder = Null
           THEN Resp(store, 200, 1, 0)
           ELSE ListFrom(store, req.user, req.path, firstFolder)
           : firstFolder \in FindOne(FolderByName(store, req.user,
                                                   PathAt(req.path, 1), Null)) }


\* ------------------------------------------- the handlers, call by call
\* newFolder, newNote, renameFVItem and updateNote as the sequence of their
\* awaited store calls.  Between two calls of one request, calls of other
\* requests can take place; the code between two awaits runs without
\* interruption, so it is part of the call that precedes it.

\* the call that follows the resolver loop
AfterLoop(op) ==
    CASE op = "newFolder"    -> "parent"
      [] op = "newNote"      -> "parent"
      [] op = "renameFVItem" -> "item"
      [] op = "updateNote"   -> "note"

\* the for-of loop up to its next findOne: every "root" segment pushes null
RECURSIVE SkipRoots(_)
SkipRoots(p) ==
    IF p.index <= Len(p.req.path) /\ p.req.path[p.index] = Root
    THEN SkipRoots([p EXCEPT !.index = @ + 1, !.folderIds = Append(@, Null)])
    ELSE p

\* the resolver loop goes on: to its next findOne, or to the call after it
LoopOn(p) ==
    LET q == IF p.req.op = "renameFVItem" THEN p ELSE SkipRoots(p)
    IN [q EXCEPT !.call = IF q.index > Len(q.req.path) THEN AfterLoop(q.req.op)
                          ELSE "resolve"]

\* The handler up to its first store call: the status it answers at once,
\* or the request at its first call.
Arrival(store, req) ==
    LET first == LoopOn(Proc(req, "resolve", IF req.op = "renameFVItem" THEN 2 ELSE 1,
                             <<>>, Null, Null))
        answer(st) == Stepped(store, st, Proc(req, "none", 0, <<>>, Null, Null))
    IN CASE req.op = "newFolder" ->
               IF req.oldName = Undefined THEN answer(500)
               ELSE IF NewFolderNameRejected(req.oldName) THEN answer(400)
               ELSE IF ~req.hasPath THEN answer(500)
               ELSE Stepped(store, Running, first)
         [] req.op = "newNote" ->
               IF ~req.hasPath THEN answer(400) ELSE Stepped(store, Running, first)
         [] req.op = "renameFVItem" ->
               IF RenameNameRejected(req.newName) THEN answer(400)
               ELSE IF ~req.hasPath THEN answer(500)
               ELSE Stepped(store, Running, first)
         [] req.op = "updateNote" ->
               IF ~req.hasPath THEN answer(400)
               ELSE IF UpdateTitleRejected(req.newName, req.oldName) THEN answer(400)
               ELSE Stepped(store, Running, first)

\* the findOne of the resolver loop for the segment at p.index
ResolveCall(store, p) ==
    LET u == p.req.user
        segment == p.req.path[p.index]
        under == IF p.req.op = "renameFVItem"
                 THEN (IF p.index = 2 THEN Null ELSE p.folderIds[p.index - 2])
                 ELSE LastId(p.folderIds)
    IN UNION {
        IF m = Null
        THEN (IF p.req.op = "newFolder"
              THEN {Stepped(store, st, p) : st \in {NoResponse, 500}}
              ELSE {Stepped(store, 404, p)})
        ELSE {Stepped(store, Running,
                      LoopOn([p EXCEPT !.index = @ + 1, !.folderIds = Append(@, m)]))}
        : m \in FindOne(FolderByName(store, u, segment, under)) }

\* newFolder 416, newNote 180: the parent document, by id
ParentCall(store, p) ==
    LET parentFolderId == LastId(p.folderIds)
        found == IF ById(store, p.req.user, parentFolderId) = {} THEN Null
                 ELSE parentFolderId
    IN {Stepped(store, Running,
                [p EXCEPT !.parent = found,
                          !.call = IF p.req.op = "newFolder" THEN "exists" ELSE "save"])}

\* newFolder 418-425 (folderExists), renameFVItem 503-505 (itemExists)
ExistsCall(store, p) ==
    LET u == p.req.user
    IN IF p.req.op = "newFolder"
       THEN (IF FolderExists(store, u, p.req.oldName, p.parent) # {}
             THEN {Stepped(store, 409, p)}
             ELSE {Stepped(store, Running, [p EXCEPT !.call = "save"])})
       ELSE (IF ItemExists(store, u, p.req.newName, LastId(p.folderIds)) # {}
             THEN {Stepped(store, 409, p)}
             ELSE {Stepped(store, Running, [p EXCEPT !.call = "set"])})

\* newFolder 427-437, newNote 182-192: the insert; the answer when there is
\* no parent to append to
SaveCall(store, id, p) ==
    LET doc == IF p.req.op = "newFolder"
               THEN NewDoc(p.req.user, p.req.oldName, p.parent, "folder", p.req.now)
               ELSE NewDoc(p.req.user, Untitled, p.parent, "note", p.req.now)
        saved == Insert(store, id, doc)
    IN IF p.parent # Null
       THEN {Stepped(saved, Running, [p EXCEPT !.target = id, !.call = "push"])}
       ELSE {Stepped(saved, 200, p)}

\* newFolder 439-446, newNote 194-201: the append to the parent's children
PushCall(store, p) ==
    {Stepped(LinkChild(store, p.req.user, p.parent, p.target), 200, p)}

\* renameFVItem 499-501 (item), updateNote 258-271 (note)
TargetCall(store, p) ==
    LET u == p.req.user
        matches == IF p.req.op = "renameFVItem"
                   THEN RenameTarget(store, u, p.req.oldName, LastId(p.folderIds))
                   ELSE UpdateTarget(store, u, p.req.path, p.folderIds, p.req.oldName)
    IN { IF m = Null THEN Stepped(store, 404, p)
         ELSE Stepped(store, Running,
                      [p EXCEPT !.target = m,
                                !.call = IF p.req.op = "renameFVItem" THEN "exists"
                                         ELSE "set"])
         : m \in FindOne(matches) }

\* renameFVItem 507-512, updateNote 273-278: the updateOne
SetCall(store, p) ==
    IF p.req.op = "renameFVItem"
    THEN {Stepped(SetName(store, p.target, p.req.newName), 200, p)}
    ELSE {Stepped(SetNote(store, p.req.user, p.target, p.req.content, p.req.newName,
                          p.req.now), 200, p)}

\* the store call p issues next
Call(store, id, p) ==
    CASE p.call = "resolve" -> ResolveCall(store, p)
      [] p.call = "parent"  -> ParentCall(store, p)
      [] p.call = "exists"  -> ExistsCall(store, p)
      [] p.call = "save"    -> SaveCall(store, id, p)
      [] p.call = "push"    -> PushCall(store, p)
      [] p.call \in {"item", "note"} -> TargetCall(store, p)
      [] p.call = "set"     -> SetCall(store, p)

\* ------------------------------------------- getFVItems, call by call
\* getFVItems as the sequence of its awaited store calls.  The request under
\* way keeps currentFolder (parent) and the children array it fills (in
\* folderIds: first the ids of currentFolder.children as read, then, up to
\* index, what the findOne for each id gave, null for none).

\* the handler up to its first store call
ListArrival(store, req) ==
    IF ~req.hasPath \/ req.oldName = Undefined \/ req.oldName = ""
    THEN Stepped(store, 400, Proc(req, "none", 0, <<>>, Null, Null))
    ELSE Stepped(store, Running,
                 Proc(req, IF req.oldName = Root THEN "roots" ELSE "first", 0, <<>>, Null, Null))

\* 320-321: the two find calls for the root
ListRootsCall(store, p) == {Stepped(store, 200, p)}

\* 323-348: firstFolder, and the while loop with the calls it makes
ListFirstCall(store, p) ==
    LET u == p.req.user
    IN { IF firstFolder = Null THEN Stepped(store, 200, p)
         ELSE LET w == Walk(store, u, p.req.path, 2, firstFolder, 1)
              IN IF w.threw \/ w.currentFolder = Null THEN Stepped(store, 500, p)
                 ELSE IF store[w.currentFolder].children = <<>> THEN Stepped(store, 200, p)
                 ELSE Stepped(store, Running,
                              [p EXCEPT !.call = "child", !.index = 1,
                                        !.parent = w.currentFolder,
                                        !.folderIds = store[w.currentFolder].children])
         : firstFolder \in FindOne(FolderByName(store, u, PathAt(p.req.path, 1), Null)) }

\* 351-363: the findOne for the child at index, pushed as it comes; after
\* the last one, children.forEach reads item.type of each, which throws on
\* null
ListChildCall(store, p) ==
    LET item == IF ById(store, p.req.user, p.folderIds[p.index]) = {} THEN Null
                ELSE p.folderIds[p.index]
        children == [p.folderIds EXCEPT ![p.index] = item]
    IN {IF p.index = Len(children)
        THEN Stepped(store, IF \E k \in 1..Len(children) : children[k] = Null
                            THEN 500 ELSE 200, p)
        ELSE Stepped(store, Running, [p EXCEPT !.index = @ + 1, !.folderIds = children])}

ListCall(store, p) ==
    CASE p.call = "roots" -> ListRootsCall(store, p)
      [] p.call = "first" -> ListFirstCall(store, p)
      [] p.call = "child" -> ListChildCall(store, p)

\* -------------------------------------------------------------- requests
\* request paths: the empty array, and "root" followed by folder names
RECURSIVE SegmentsUpTo(_, _)
SegmentsUpTo(names, n) ==
    IF n = 0 THEN {<<>>}
    ELSE LET shorter == SegmentsUpTo(names, n - 1)
         IN shorter \cup {Append(p, f) : p \in {q \in shorter : Len(q) = n - 1},
                                          f \in names}

Paths(names) == {<<>>} \cup {<<Root>> \o p : p \in SegmentsUpTo(names, MaxPathLen)}

\* req.body.path: missing, or one of Paths
PathInputs(names) ==
    {[hasPath |-> FALSE, path |-> <<>>]}
        \cup {[hasPath |-> TRUE, path |-> p] : p \in Paths(names)}

\* the router: one handler per route
Handle(store, id, req) ==
    CASE req.op = "getFVItems"   -> GetFVItems(store, req)
      [] req.op = "newFolder"    -> NewFolder(store, id, req)
      [] req.op = "newNote"      -> NewNote(store, id, req)
      [] req.op = "renameFVItem" -> RenameFVItem(store, req)
      [] req.op = "deleteFVItem" -> DeleteFVItem(store, req)
      [] req.op = "updateNote"   -> UpdateNote(store, req)
      [] req.op = "getNote"      -> GetNote(store, req)

\* The requests of the callers in users, with folder names from names, at
\* the instants in times.
GetFVItemsRequests(users, names) ==
    {Request("getFVItems", u, pi, folder, "", "", 0)
     : u \in users, pi \in PathInputs(names), folder \in {Undefined, "", Root, "a"}}

NewFolderRequests(users, names, times) ==
    {Request("newFolder", u, pi, folderName, "", "", now)
     : u \in users, pi \in PathInputs(names),
       folderName \in {Undefined, "", Root} \cup names, now \in times}

NewNoteRequests(users, names, times) ==
    {Request("newNote", u, pi, "", "", "", now)
     : u \in users, pi \in PathInputs(names), now \in times}

RenameFVItemRequests(users, names) ==
    {Request("renameFVItem", u, pi, oldName, newName, "", 0)
     : u \in users, pi \in PathInputs(names), oldName \in {Untitled} \cup names,
       newName \in {Root} \cup names}

DeleteFVItemRequests(users, names) ==
    {Request("deleteFVItem", u, pi, folder, "", "", 0)
     : u \in users, pi \in PathInputs(names), folder \in {"", Root, Untitled} \cup names}

UpdateNoteRequests(users, names, times) ==
    {Request("updateNote", u, pi, oldTitle, title, content, now)
     : u \in users, pi \in PathInputs(names), oldTitle \in {"", Untitled, "a"},
       title \in {"", Root, Untitled, "a"}, content \in Contents, now \in times}

GetNoteRequests(users, names) ==
    {Request("getNote", u, pi, title, "", "", 0)
     : u \in users, pi \in PathInputs(names), title \in {Untitled, "a"}}

\* every request of the seven routes
Requests(users, names, times) ==
    UNION {GetFVItemsRequests(users, names), NewFolderRequests(users, names, times),
           NewNoteRequests(users, names, times), RenameFVItemRequests(users, names),
           DeleteFVItemRequests(users, names), UpdateNoteRequests(users, names, times),
           GetNoteRequests(users, names)}

\* The requests of a client of owner u that makes a folder, writes a note in
\* it, lists the folder, deletes it and lists the root, all at the instant
\* now.
Math == "Math"
Homework == "Homework"
InRoot == [hasPath |-> TRUE, path |-> <<Root>>]
InMath == [hasPath |-> TRUE, path |-> <<Root, Math>>]

Scenario(u, now) ==
    << Request("newFolder", u, InRoot, Math, "", "", now),
       Request("newNote", u, InMath, "", "", "", now),
       Request("renameFVItem", u, InMath, Untitled, Homework, "", now),
       Request("updateNote", u, InMath, Homework, Homework, "2+2=4", now),
       Request("getFVItems", u, InMath, Math, "", "", now),
       Request("deleteFVItem", u, InRoot, Math, "", "", now),
       Request("getFVItems", u, InRoot, Root, "", "", now) >>

ScenarioRequests == {Scenario(u, now)[k] : u \in Users, now \in Times, k \in 1..7}

Init ==
    /\ items = <<>>
    /\ nextId = 1
    /\ procs = EmptyBag

\* the outcomes of a request that the bound on ObjectIds admits
Outcomes(req) ==
    {o \in Handle(items, nextId, req) : nextId \in DOMAIN o.items => nextId <= MaxId}

\* the store hands out the next ObjectId once a document was inserted
NextIdAfter(o) == IF nextId \in DOMAIN o.items THEN nextId + 1 ELSE nextId

\* ---------------------------------------------------------- the actions
\* Every action is one request, from arrival to response, of a caller in
\* users, with folder names from names, at an instant in times.
ReqGetFVItems(users, names) ==
    \E req \in GetFVItemsRequests(users, names) : \E o \in Outcomes(req) :
        items' = o.items /\ nextId' = NextIdAfter(o) /\ procs' = procs

ReqNewFolder(users, names, times) ==
    \E req \in NewFolderRequests(users, names, times) : \E o \in Outcomes(req) :
        items' = o.items /\ nextId' = NextIdAfter(o) /\ procs' = procs

ReqNewNote(users, names, times) ==
    \E req \in NewNoteRequests(users, names, times) : \E o \in Outcomes(req) :
        items' = o.items /\ nextId' = NextIdAfter(o) /\ procs' = procs

ReqRenameFVItem(users, names) ==
    \E req \in RenameFVItemRequests(users, names) : \E o \in Outcomes(req) :
        items' = o.items /\ nextId' = NextIdAfter(o) /\ procs' = procs

ReqDeleteFVItem(users, names) ==
    \E req \in DeleteFVItemRequests(users, names) : \E o \in Outcomes(req) :
        items' = o.items /\ nextId' = NextIdAfter(o) /\ procs' = procs

ReqUpdateNote(users, names, times) ==
    \E req \in UpdateNoteRequests(users, names, times) : \E o \in Outcomes(req) :
        items' = o.items /\ nextId' = NextIdAfter(o) /\ procs' = procs

ReqGetNote(users, names) ==
    \E req \in GetNoteRequests(users, names) : \E o \in Outcomes(req) :
        items' = o.items /\ nextId' = NextIdAfter(o) /\ procs' = procs

\* one request of the clients that go through Scenario, in any order
ScenarioStep ==
    \E req \in ScenarioRequests : \E o \in Outcomes(req) :
        items' = o.items /\ nextId' = NextIdAfter(o) /\ procs' = procs

\* a newFolder request stopped by a store failure
FailNewFolder(users, names, times) ==
    \E req \in NewFolderRequests(users, names, times) :
        \E o \in NewFolderFailing(items, nextId, req) :
            /\ nextId \in DOMAIN o.items => nextId <= MaxId
            /\ items' = o.items /\ nextId' = NextIdAfter(o) /\ procs' = procs

\* a newNote request stopped by a store failure
FailNewNote(users, names, times) ==
    \E req \in NewNoteRequests(users, names, times) :
        \E o \in NewNoteFailing(items, nextId, req) :
            /\ nextId \in DOMAIN o.items => nextId <= MaxId
            /\ items' = o.items /\ nextId' = NextIdAfter(o) /\ procs' = procs

\* a deleteFVItem request stopped by a store failure
FailDeleteFVItem(users, names) ==
    \E req \in DeleteFVItemRequests(users, names) :
        \E o \in DeleteFVItemFailing(items, req) :
            items' = o.items /\ nextId' = nextId /\ procs' = procs

\* the requests under way once p has made the call s
After(p, s) ==
    IF s.status = Running
    THEN (procs (-) SetToBag({p})) (+) SetToBag({s.proc})
    ELSE procs (-) SetToBag({p})

\* the calls that the bound on ObjectIds admits
Calls(p) ==
    {s \in Call(items, nextId, p) : nextId \in DOMAIN s.items => nextId <= MaxCallId}

\* a request arrives: it is answered at once, or it is under way from now on
Arrive(reqs) ==
    \E req \in reqs :
        LET s == Arrival(items, req)
        IN /\ BagCardinality(procs) < MaxInFlight
           /\ items' = items /\ nextId' = nextId
           /\ procs' = IF s.status = Running THEN procs (+) SetToBag({s.proc}) ELSE procs

\* a request under way makes its next store call
CallResolve ==
    \E p \in BagToSet(procs) : p.call = "resolve" /\ \E s \in Calls(p) :
        items' = s.items /\ nextId' = NextIdAfter(s) /\ procs' = After(p, s)

CallParent ==
    \E p \in BagToSet(procs) : p.call = "parent" /\ \E s \in Calls(p) :
        items' = s.items /\ nextId' = NextIdAfter(s) /\ procs' = After(p, s)

CallExists ==
    \E p \in BagToSet(procs) : p.call = "exists" /\ \E s \in Calls(p) :
        items' = s.items /\ nextId' = NextIdAfter(s) /\ procs' = After(p, s)

CallSave ==
    \E p \in BagToSet(procs) : p.call = "save" /\ \E s \in Calls(p) :
        items' = s.items /\ nextId' = NextIdAfter(s) /\ procs' = After(p, s)

CallPush ==
    \E p \in BagToSet(procs) : p.call = "push" /\ \E s \in Calls(p) :
        items' = s.items /\ nextId' = NextIdAfter(s) /\ procs' = After(p, s)

CallTarget ==
    \E p \in BagToSet(procs) : p.call \in {"item", "note"} /\ \E s \in Calls(p) :
        items' = s.items /\ nextId' = NextIdAfter(s) /\ procs' = After(p, s)

CallSet ==
    \E p \in BagToSet(procs) : p.call = "set" /\ \E s \in Calls(p) :
        items' = s.items /\ nextId' = NextIdAfter(s) /\ procs' = After(p, s)

\* ------------------------------------------ Spec: the requests of one owner
Owner == {"u1"}
Now == {0}

Next ==
    \/ ReqGetFVItems(Owner, FolderNames)
    \/ ReqNewFolder(Owner, FolderNames, Now)
    \/ ReqNewNote(Owner, FolderNames, Now)
    \/ ReqRenameFVItem(Owner, FolderNames)
    \/ ReqDeleteFVItem(Owner, FolderNames)
    \/ ReqUpdateNote(Owner, FolderNames, Now)
    \/ ReqGetNote(Owner, FolderNames)

Spec == Init /\ [][Next]_vars

\* ------------------------------------ SpecOwners: the requests of two owners
\* Both owners use the same folder name, so that their trees hold Items with
\* the same names at the same paths.
SharedNames == {"a"}

NextOwners ==
    \/ ReqGetFVItems(Users, SharedNames)
    \/ ReqNewFolder(Users, SharedNames, Now)
    \/ ReqNewNote(Users, SharedNames, Now)
    \/ ReqRenameFVItem(Users, SharedNames)
    \/ ReqDeleteFVItem(Users, SharedNames)
    \/ ReqUpdateNote(Users, SharedNames, Now)
    \/ ReqGetNote(Users, SharedNames)

SpecOwners == Init /\ [][NextOwners]_vars

\* --------------------------- SpecFaults: deletions stopped by a store failure
\* The requests of one owner, run one at a time; a deleteFVItem request may
\* stop with 500 between two of its writes, a newFolder or newNote request
\* between the save and the append to the parent's children.
FaultNames == {"a"}

NextFaults ==
    \/ ReqGetFVItems(Owner, FaultNames)
    \/ ReqNewFolder(Owner, FaultNames, Now)
    \/ ReqNewNote(Owner, FaultNames, Now)
    \/ ReqRenameFVItem(Owner, FaultNames)
    \/ ReqDeleteFVItem(Owner, FaultNames)
    \/ ReqUpdateNote(Owner, FaultNames, Now)
    \/ ReqGetNote(Owner, FaultNames)
    \/ FailDeleteFVItem(Owner, FaultNames)
    \/ FailNewFolder(Owner, FaultNames, Now)
    \/ FailNewNote(Owner, FaultNames, Now)

SpecFaults == Init /\ [][NextFaults]_vars

\* ------------------------------------ SpecScenario: the requests of Scenario
\* Clients of both owners send the requests of Scenario at any instant, in
\* any order and any number of times, one request at a time.
NextScenario == ScenarioStep

SpecScenario == Init /\ [][NextScenario]_vars

\* --------------------- SpecCalls: requests interleaved at store-call granularity
\* newFolder, newNote, renameFVItem and updateNote requests of one owner, up
\* to MaxInFlight of them under way at a time, each store call one step.
CallNames == {"a"}
CallPaths == {<<Root>>, <<Root, "a">>}

CallRequests ==
    {req \in UNION {NewFolderRequests(Owner, CallNames, Now),
                    NewNoteRequests(Owner, CallNames, Now),
                    RenameFVItemRequests(Owner, CallNames),
                    UpdateNoteRequests(Owner, CallNames, Now)} :
        /\ req.hasPath => req.path \in CallPaths
        /\ req.op = "updateNote" => req.oldName \in {"", Untitled}}

NextCalls ==
    \/ Arrive(CallRequests)
    \/ CallResolve
    \/ CallParent
    \/ CallExists
    \/ CallSave
    \/ CallPush
    \/ CallTarget
    \/ CallSet

SpecCalls == Init /\ [][NextCalls]_vars

\* ------------------------------ SpecListing: listings next to deletions
\* getFVItems requests of one owner store call by store call, up to
\* MaxInFlight under way; newFolder, newNote and deleteFVItem requests of
\* the same owner run between two of their calls.
ListRequests ==
    {req \in GetFVItemsRequests(Owner, CallNames) : req.hasPath => req.path \in CallPaths}

ArriveList ==
    \E req \in ListRequests :
        LET s == ListArrival(items, req)
        IN /\ BagCardinality(procs) < MaxInFlight
           /\ items' = items /\ nextId' = nextId
           /\ procs' = IF s.status = Running THEN procs (+) SetToBag({s.proc}) ELSE procs

CallListRoots ==
    \E p \in BagToSet(procs) : p.call = "roots" /\ \E s \in ListCall(items, p) :
        items' = s.items /\ nextId' = nextId /\ procs' = After(p, s)

CallListFirst ==
    \E p \in BagToSet(procs) : p.call = "first" /\ \E s \in ListCall(items, p) :
        items' = s.items /\ nextId' = nextId /\ procs' = After(p, s)

CallListChild ==
    \E p \in BagToSet(procs) : p.call = "child" /\ \E s \in ListCall(items, p) :
        items' = s.items /\ nextId' = nextId /\ procs' = After(p, s)

NextListing ==
    \/ ArriveList
    \/ CallListRoots
    \/ CallListFirst
    \/ CallListChild
    \/ ReqNewFolder(Owner, CallNames, Now)
    \/ ReqNewNote(Owner, CallNames, Now)
    \/ ReqDeleteFVItem(Owner, CallNames)

SpecListing == Init /\ [][NextListing]_vars

\* ------------------------- SpecRaces: deletions between the calls of others
\* newFolder and newNote requests of one owner store call by store call, up
\* to MaxInFlight under way; deleteFVItem, renameFVItem and updateNote
\* requests of the same owner run between two of their calls, all the store
\* calls of such a request together (one of the interleavings the event
\* loop allows).  Of these, the requests that pass the name checks: the
\* others are answered before any store call.
RaceRequests == {req \in CallRequests : req.op \in {"newFolder", "newNote"}}

BetweenRequests ==
    {req \in UNION {DeleteFVItemRequests(Owner, CallNames),
                    RenameFVItemRequests(Owner, CallNames),
                    UpdateNoteRequests(Owner, CallNames, Now)} :
        /\ req.hasPath /\ req.path \in CallPaths
        /\ req.op = "deleteFVItem" => ~DeleteNameRejected(req.oldName)
        /\ req.op = "renameFVItem" => ~RenameNameRejected(req.newName)
        /\ req.op = "updateNote" => ~UpdateTitleRejected(req.newName, req.oldName)}

\* one such request, from its first store call to its response
ReqBetween ==
    \E req \in BetweenRequests : \E o \in Handle(items, nextId, req) :
        items' = o.items /\ nextId' = nextId /\ procs' = procs

NextRaces ==
    \/ Arrive(RaceRequests)
    \/ CallResolve
    \/ CallParent
    \/ CallExists
    \/ CallSave
    \/ CallPush
    \/ ReqBetween

SpecRaces == Init /\ [][NextRaces]_vars

\* ------------------------------ SpecLive: every request up to its response
\* The requests of the seven routes of one owner, one under way at a time.
\* newFolder, newNote, renameFVItem and updateNote go store call by store
\* call; getFVItems, deleteFVItem and getNote run in one step.  A handler
\* that returns without sending a response leaves its request under way,
\* at no call, for ever: Express sends nothing by itself.  Every store call
\* completes, so a request that has a next step takes it (weak fairness).
LiveRequests ==
    CallRequests \cup
    {req \in UNION {GetFVItemsRequests(Owner, CallNames),
                    DeleteFVItemRequests(Owner, CallNames),
                    GetNoteRequests(Owner, CallNames)} :
        req.hasPath => req.path \in CallPaths}

CallByCall == {"newFolder", "newNote", "renameFVItem", "updateNote"}

LiveArrival(store, req) ==
    IF req.op \in CallByCall THEN Arrival(store, req)
    ELSE Stepped(store, Running, Proc(req, "handler", 0, <<>>, Null, Null))

\* the requests under way once p has made the call s, p staying when it was
\* not answered
AfterLive(p, s) ==
    CASE s.status = Running    -> (procs (-) SetToBag({p})) (+) SetToBag({s.proc})
      [] s.status = NoResponse -> (procs (-) SetToBag({p}))
                                      (+) SetToBag({[p EXCEPT !.call = "none"]})
      [] OTHER                 -> procs (-) SetToBag({p})

\* a request arrives when none is under way; a creation only while the
\* store has an ObjectId left for it
ArriveLive ==
    \E req \in LiveRequests :
        LET s == LiveArrival(items, req)
        IN /\ procs = EmptyBag
           /\ req.op \in {"newFolder", "newNote"} => nextId <= MaxCallId
           /\ items' = items /\ nextId' = nextId
           /\ procs' = IF s.status = Running THEN SetToBag({s.proc}) ELSE procs

\* the request under way makes its next store call
CallLive ==
    \E p \in BagToSet(procs) : p.req.op \in CallByCall /\ p.call # "none" /\
        \E s \in Call(items, nextId, p) :
            items' = s.items /\ nextId' = NextIdAfter(s) /\ procs' = AfterLive(p, s)

\* the handler of the request under way runs from its first line to its
\* response
HandleLive ==
    \E p \in BagToSet(procs) : p.call = "handler" /\
        \E o \in Handle(items, nextId, p.req) :
            items' = o.items /\ nextId' = nextId /\ procs' = procs (-) SetToBag({p})

NextLive ==
    \/ ArriveLive
    \/ CallLive
    \/ HandleLive

SpecLive == Init /\ [][NextLive]_vars /\ WF_vars(CallLive) /\ WF_vars(HandleLive)

\* ================================================================ properties
\* a request under way makes all its remaining calls with no other request
\* in between: the collection it leaves and the status it answers
RECURSIVE RunOn(_, _, _)
RunOn(store, id, p) ==
    UNION { IF s.status = Running THEN RunOn(s.items, id, s.proc)
            ELSE {<<s.items, s.status>>}
            : s \in Call(store, id, p) }

RunAlone(store, id, req) ==
    LET s == Arrival(store, req)
    IN IF s.status = Running THEN RunOn(store, id, s.proc) ELSE {<<store, s.status>>}

\* The two descriptions of newFolder, newNote, renameFVItem and updateNote
\* agree: call by call with nothing in between, a request leaves the same
\* collection and answers the same status as the handler run as a whole.
CallByCallAgrees ==
    \A req \in UNION {NewFolderRequests(Owner, FolderNames, Now),
                      NewNoteRequests(Owner, FolderNames, Now),
                      RenameFVItemRequests(Owner, FolderNames),
                      UpdateNoteRequests(Owner, FolderNames, Now)} :
        RunAlone(items, nextId, req)
            = {<<o.items, o.status>> : o \in Handle(items, nextId, req)}
\* the positions of id in a children list
Positions(children, id) == {k \in 1..Len(children) : children[k] = id}

\* children lists and parent references agree in store
ChildrenAgree(store) ==
    /\ \A f \in DOMAIN store : \A k \in 1..Len(store[f].children) :
          LET c == store[f].children[k]
          IN /\ c \in DOMAIN store
             /\ store[c].userId = store[f].userId
             /\ store[c].parentFolder = f
    /\ \A i \in DOMAIN store :
          LET p == store[i].parentFolder
          IN p # Null => /\ p \in DOMAIN store
                         /\ store[p].type = "folder"
                         /\ Cardinality(Positions(store[p].children, i)) = 1

\* the ids reachable from the ids in S through children lists, S included
RECURSIVE Subtree(_, _)
Subtree(store, S) ==
    LET more == S \cup {c \in DOMAIN store :
                          \E f \in S \cap DOMAIN store : Positions(store[f].children, c) # {}}
    IN IF more = S THEN S ELSE Subtree(store, more)

\* an ObjectId the store handed out has no document any more
SomeDeleted == \E i \in 1..(nextId - 1) : i \notin DOMAIN items

\* C1: after any sequence of newFolder, newNote, renameFVItem, updateNote and
\* deleteFVItem requests run one at a time, every id in a folder's children is
\* an Item of the same user whose parentFolder is that folder, and every Item
\* with a non-null parentFolder is listed exactly once in the children of that
\* existing folder.
C1_ChildrenAgree == ChildrenAgree(items)

\* C1 happens: after a deletion, a folder still holds a child
C1_Witness ==
    /\ SomeDeleted
    /\ \E f, c \in DOMAIN items :
          /\ items[c].parentFolder = f
          /\ items[f].children = <<c>>

\* the successful deleteFVItem outcomes on a folder, in the current state
FolderDeletions ==
    {o \in UNION {Handle(items, nextId, req)
                  : req \in DeleteFVItemRequests(Owner, FolderNames)} :
        /\ o.status = 200
        /\ o.target \in DOMAIN items
        /\ items[o.target].type = "folder"}

\* C2: when children lists and parent references agree, a successful
\* deleteFVItem on a folder A leaves no document for A or for any Item
\* reachable from A through children lists, leaves A's id out of the children
\* of A's former parent, and leaves every other Item as it was, but for that
\* one reference removed from the former parent.
C2_DeleteRemovesSubtree ==
    ChildrenAgree(items) =>
        \A o \in FolderDeletions :
            LET A == o.target
                gone == Subtree(items, {A})
                parent == items[A].parentFolder
            IN /\ DOMAIN o.items = DOMAIN items \ gone
               /\ \A i \in DOMAIN o.items :
                     /\ Positions(o.items[i].children, A) = {}
                     /\ o.items[i] = IF i = parent
                                     THEN [items[i] EXCEPT !.children = Without(@, A)]
                                     ELSE items[i]

\* C2 happens: folder A holds folder B, B holds C, and A is deleted
C2_Witness ==
    \E o \in FolderDeletions :
        \E B \in DOMAIN items :
            /\ items[B].parentFolder = o.target
            /\ items[B].children # <<>>
            /\ DOMAIN o.items = {}

\* the Items of user u
Restrict(store, u) ==
    [i \in {j \in DOMAIN store : store[j].userId = u} |-> store[i]]

\* the ids of the documents a response carries
Returned(o) ==
    {o.folders[k] : k \in 1..Len(o.folders)} \cup {o.files[k] : k \in 1..Len(o.files)}

\* what caller u sees of an outcome: the response and the caller's own Items
View(o, u) ==
    [status |-> o.status, segment |-> o.segment, folders |-> o.folders,
     files |-> o.files, own |-> Restrict(o.items, u)]

\* C3: a request of caller U returns only Items of U, leaves every Item of
\* another user in place and unchanged, and its response and its effect on
\* U's Items are what they are when the other users hold no Item at all.
C3_CallerIsolation ==
    \A req \in Requests(Users, SharedNames, Now) :
        LET U == req.user
            amongAll == Handle(items, nextId, req)
            alone == Handle(Restrict(items, U), nextId, req)
        IN /\ \A o \in amongAll :
                 /\ \A i \in Returned(o) : i \in DOMAIN items /\ items[i].userId = U
                 /\ \A i \in DOMAIN items :
                       items[i].userId # U => i \in DOMAIN o.items /\ o.items[i] = items[i]
           /\ {View(o, U) : o \in amongAll} = {View(o, U) : o \in alone}

\* C3 happens: both users hold a folder of the same name at the root, one of
\* them holding a child, and the other user deletes their own
C3_Witness ==
    \E i, j \in DOMAIN items :
        /\ items[i].userId = "u1" /\ items[j].userId = "u2"
        /\ items[i].type = "folder" /\ items[j].type = "folder"
        /\ items[i].name = items[j].name
        /\ items[i].parentFolder = Null /\ items[j].parentFolder = Null
        /\ items[j].children # <<>>
        /\ \E req \in DeleteFVItemRequests({"u1"}, SharedNames) :
              \E o \in Handle(items, nextId, req) :
                  o.status = 200 /\ o.target = i /\ DOMAIN o.items = DOMAIN items \ {i}

\* Items i and j are distinct siblings: same user, same parent
Siblings(store, i, j) ==
    /\ i # j
    /\ store[i].userId = store[j].userId
    /\ store[i].parentFolder = store[j].parentFolder

\* C4 as stated: no two distinct Items with the same userId and the same
\* parentFolder have the same name.
C4_NoSiblingsShareName ==
    \A i, j \in DOMAIN items : Siblings(items, i, j) => items[i].name # items[j].name

\* C4, amended: no two distinct Folders with the same userId and the same
\* parentFolder have the same name (Notes are not kept apart: two Notes, or a
\* Note and a Folder, under one parent can share a name).
C4_NoSiblingFoldersShareName ==
    \A i, j \in DOMAIN items :
        /\ Siblings(items, i, j)
        /\ items[i].type = "folder" /\ items[j].type = "folder"
        => items[i].name # items[j].name

\* C4 happens: two sibling Folders, and a Note beside them that has the name
\* of one of them
C4_Witness ==
    \E i, j, n \in DOMAIN items :
        /\ Siblings(items, i, j) /\ Siblings(items, i, n)
        /\ items[i].type = "folder" /\ items[j].type = "folder" /\ items[n].type = "note"
        /\ items[n].name = items[i].name

\* the folders of user u named name under parent (a folder id or Null)
FoldersNamed(store, u, name, parent) ==
    {i \in DOMAIN store : /\ store[i].userId = u
                          /\ store[i].type = "folder"
                          /\ store[i].name = name
                          /\ store[i].parentFolder = parent}

\* C5: a newFolder request with name X whose path resolves to the parent P
\* answers 409 exactly when a Folder of the caller named X exists under P,
\* and then the collection is unchanged; otherwise it answers 200 and
\* exactly one Folder named X is under P afterwards (so the same request
\* again answers 409); no two Folders of one owner share parent and name.
C5_ConflictIffFolderExists ==
    /\ C4_NoSiblingFoldersShareName
    /\ \A req \in NewFolderRequests(Owner, FolderNames, Times) :
          /\ req.hasPath
          /\ req.oldName # Undefined
          /\ ~NewFolderNameRejected(req.oldName)
          => \A r \in ResolveSegments(items, req.user, req.path, 1, <<>>, 0) :
                r.found =>
                   LET P == LastId(r.folderIds)
                       X == req.oldName
                   IN \A o \in Handle(items, nextId, req) :
                         /\ o.status \in {200, 409}
                         /\ o.status = 409 <=> FoldersNamed(items, req.user, X, P) # {}
                         /\ o.status = 409 => o.items = items
                         /\ o.status = 200 =>
                               /\ FoldersNamed(o.items, req.user, X, P) = {nextId}
                               /\ \A again \in Handle(o.items, nextId + 1, req) :
                                     again.status = 409 /\ again.items = o.items

\* C5 happens: a folder inside a folder is asked for a second time
C5_Witness ==
    \E req \in NewFolderRequests(Owner, FolderNames, Times) :
        \E o \in Handle(items, nextId, req) :
            /\ o.status = 409
            /\ o.parent # Null
            /\ FoldersNamed(items, req.user, req.oldName, o.parent) # {}

\* C6: in every state reached by newFolder, newNote, renameFVItem and
\* updateNote requests, run one after the other or interleaved store call by
\* store call, no Item has the name "root".
C6_NoItemNamedRoot ==
    \A i \in DOMAIN items : items[i].name # Root

\* C6 happens: with two requests under way and a Note already renamed, a
\* rename to "root" arrives and is turned down
C6_Witness ==
    /\ BagCardinality(procs) = 2
    /\ \E i \in DOMAIN items : items[i].type = "note" /\ items[i].name # Untitled
    /\ \E req \in CallRequests :
          /\ req.op = "renameFVItem" /\ req.newName = Root /\ req.hasPath
          /\ RenameTarget(items, req.user, req.oldName, Null) # {}
          /\ Arrival(items, req).status = 400

\* the requests that give or target the reserved name: renameFVItem with
\* newName "root", deleteFVItem with folder "root"
RootRequests ==
    {Request("renameFVItem", u, pi, oldName, Root, "", 0)
     : u \in Owner, pi \in PathInputs(FolderNames),
       oldName \in {Undefined, "", Untitled} \cup FolderNames}
    \cup {Request("deleteFVItem", u, pi, Root, "", "", 0)
          : u \in Owner, pi \in PathInputs(FolderNames)}

\* C7: renameFVItem with newName "root" and deleteFVItem with target "root"
\* answer 400 and change no Item, whatever the path (missing, empty, resolving
\* or not), the old name and the tree are.
C7_RootIsProtected ==
    \A req \in RootRequests :
        \A o \in Handle(items, nextId, req) : o.status = 400 /\ o.items = items

\* C7 happens: an Item that the path and the old name do find is to be
\* renamed to "root"
C7_Witness ==
    \E req \in RootRequests :
        /\ req.op = "renameFVItem" /\ req.hasPath /\ Len(req.path) = 2
        /\ \E r \in ResolveByIndex(items, req.user, req.path, 2, <<>>, 0) :
              /\ r.found
              /\ RenameTarget(items, req.user, req.oldName, LastId(r.folderIds)) # {}
        /\ \E o \in Handle(items, nextId, req) : o.status = 400

\* The resolver as section 4.1 of the specification has it: from the root,
\* one lookup by (userId, kind Folder, name, parent) per non-root segment,
\* stopping at the first segment that has no such Folder.  n counts the
\* lookups; the result names the segment that failed.
RECURSIVE ResolvePath(_, _, _, _, _, _)
ResolvePath(store, u, path, k, parent, n) ==
    IF k > Len(path) THEN Resolved(n, TRUE, <<parent>>, "")
    ELSE IF path[k] = Root THEN ResolvePath(store, u, path, k + 1, Null, n)
    ELSE LET fs == FoldersNamed(store, u, path[k], parent)
         IN IF fs = {} THEN Resolved(n + 1, FALSE, <<>>, path[k])
            ELSE ResolvePath(store, u, path, k + 1, CHOOSE f \in fs : TRUE, n + 1)

\* the request passes the name checks of its handler
NamesAccepted(req) ==
    CASE req.op = "newFolder"    -> req.oldName # Undefined /\ ~NewFolderNameRejected(req.oldName)
      [] req.op = "renameFVItem" -> ~RenameNameRejected(req.newName)
      [] req.op = "deleteFVItem" -> ~DeleteNameRejected(req.oldName)
      [] req.op = "updateNote"   -> ~UpdateTitleRejected(req.newName, req.oldName)
      [] OTHER                   -> TRUE

\* the requests of the operations that resolve a parent path
ResolvingRequests ==
    UNION {NewFolderRequests(Owner, FolderNames, Now), NewNoteRequests(Owner, FolderNames, Now),
           RenameFVItemRequests(Owner, FolderNames), DeleteFVItemRequests(Owner, FolderNames),
           UpdateNoteRequests(Owner, FolderNames, Now)}

\* the handler answered 404 for the segment seg after n lookups, writing nothing
NotFoundAt(o, seg, n) ==
    /\ o.status = 404
    /\ o.segment = seg
    /\ o.reads = n
    /\ o.writes = 0
    /\ o.items = items

\* C8: in newFolder, newNote, renameFVItem, deleteFVItem and updateNote, a
\* path with a non-root segment that names no Folder of the caller under the
\* parent resolved so far is answered with 404 naming the first such segment,
\* after no further lookup and with no write.
C8_UnresolvedSegmentIs404 ==
    \A req \in ResolvingRequests :
        req.hasPath /\ NamesAccepted(req) =>
            LET s == ResolvePath(items, req.user, req.path, 1, Null, 0)
            IN ~s.found => \A o \in Handle(items, nextId, req) : NotFoundAt(o, s.segment, s.reads)

\* the same for the operations other than newFolder
C8_ExceptNewFolder ==
    \A req \in ResolvingRequests \ NewFolderRequests(Owner, FolderNames, Now) :
        req.hasPath /\ NamesAccepted(req) =>
            LET s == ResolvePath(items, req.user, req.path, 1, Null, 0)
            IN ~s.found => \A o \in Handle(items, nextId, req) : NotFoundAt(o, s.segment, s.reads)

\* the requests of the six tree operations
TreeRequests == ResolvingRequests \cup GetFVItemsRequests(Owner, FolderNames)

\* C9: a tree operation called with a missing path or with an empty path
\* answers 400 and has issued no store call.
C9_NoPathIs400 ==
    \A req \in TreeRequests :
        ~req.hasPath \/ req.path = <<>> =>
            \A o \in Handle(items, nextId, req) :
                o.status = 400 /\ o.reads = 0 /\ o.writes = 0 /\ o.items = items

\* C9 for a missing path in the handlers that test it first
C9_MissingPathWhereTested ==
    \A req \in TreeRequests :
        ~req.hasPath /\ req.op \in {"newNote", "updateNote", "getFVItems"} =>
            \A o \in Handle(items, nextId, req) :
                o.status = 400 /\ o.reads = 0 /\ o.writes = 0 /\ o.items = items

\* C10: getFVItems for a folder other than "root", on a path with a segment
\* that does not resolve to a folder, answers 200 with no folders and no
\* files.
C10_UnresolvedListingIsEmpty ==
    \A req \in GetFVItemsRequests(Owner, FolderNames) :
        req.hasPath /\ req.oldName \notin {Undefined, "", Root} =>
            LET s == ResolvePath(items, req.user, req.path, 1, Null, 0)
            IN ~s.found => \A o \in Handle(items, nextId, req) :
                              o.status = 200 /\ o.folders = <<>> /\ o.files = <<>>

\* C10 when it is the first segment after "root" that does not resolve
C10_FirstSegmentOnly ==
    \A req \in GetFVItemsRequests(Owner, FolderNames) :
        req.hasPath /\ req.oldName \notin {Undefined, "", Root} =>
            LET s == ResolvePath(items, req.user, req.path, 1, Null, 0)
            IN ~s.found /\ s.reads = 1 =>
                  \A o \in Handle(items, nextId, req) :
                      o.status = 200 /\ o.folders = <<>> /\ o.files = <<>>

\* the elements of a sequence
Range(seq) == {seq[k] : k \in 1..Len(seq)}

\* seq lists exactly the ids in S, each once
ListsExactly(seq, S) == Range(seq) = S /\ Len(seq) = Cardinality(S)

\* the Items of user u of one type whose parentFolder is parent
ItemsUnder(store, u, parent, type) ==
    {i \in DOMAIN store : /\ store[i].userId = u
                          /\ store[i].parentFolder = parent
                          /\ store[i].type = type}

\* getFVItems requests for the folder a path ends in: folder is the last
\* segment of the path
ListingRequests ==
    {Request("getFVItems", u, pi, pi.path[Len(pi.path)], "", "", 0)
     : u \in Owner, pi \in {q \in PathInputs(FolderNames) : q.hasPath /\ Len(q.path) >= 1}}

\* the response lists exactly the Items of the caller under parent
ListsFolder(o, u, parent) ==
    /\ o.status = 200
    /\ ListsExactly(o.folders, ItemsUnder(items, u, parent, "folder"))
    /\ ListsExactly(o.files, ItemsUnder(items, u, parent, "note"))

\* C11: for every path that the resolver of section 4.1 resolves to a folder
\* F, getFVItems returns exactly the Items whose parentFolder is F, each
\* once, Folders in folders and Notes in files; with folder "root" it returns
\* exactly the caller's Items with null parentFolder.
C11_ListingIsExact ==
    \A req \in ListingRequests :
        LET s == ResolvePath(items, req.user, req.path, 1, Null, 0)
        IN s.found => \A o \in Handle(items, nextId, req) :
                         ListsFolder(o, req.user, LastId(s.folderIds))

\* a Note and a Folder of one user under the same parent have the same name
NoteNamedLikeFolder(store) ==
    \E i, j \in DOMAIN store :
        /\ Siblings(store, i, j)
        /\ store[i].type = "note" /\ store[j].type = "folder"
        /\ store[i].name = store[j].name

\* C11 in the states where no Note has the name of a sibling Folder
C11_UnlessNoteNamedLikeFolder ==
    ~NoteNamedLikeFolder(items) => C11_ListingIsExact

\* the Items of user u named name under parent, of either type
ItemsNamed(store, u, name, parent) ==
    {i \in DOMAIN store : /\ store[i].userId = u
                          /\ store[i].name = name
                          /\ store[i].parentFolder = parent}

\* renameFVItem requests with a path and a new name other than "root", the
\* empty new name included
RenameRequests ==
    {Request("renameFVItem", u, pi, oldName, newName, "", 0)
     : u \in Owner, pi \in {q \in PathInputs(FolderNames) : q.hasPath},
       oldName \in {Untitled} \cup FolderNames, newName \in {"", Untitled} \cup FolderNames}

\* C12: renameFVItem whose path resolves to the parent P answers 404 when no
\* Item of the caller named oldName is under P, and otherwise answers 409
\* exactly when an Item of any kind named newName is under P (the Item
\* itself, when newName is its current name); in both cases nothing changes.
C12_RenameNotFoundOrConflict ==
    \A req \in RenameRequests :
        LET s == ResolvePath(items, req.user, req.path, 1, Null, 0)
            P == LastId(s.folderIds)
        IN s.found => \A o \in Handle(items, nextId, req) :
              IF ItemsNamed(items, req.user, req.oldName, P) = {}
              THEN o.status = 404 /\ o.items = items
              ELSE /\ o.status \in {200, 409}
                   /\ o.status = 409 <=> ItemsNamed(items, req.user, req.newName, P) # {}
                   /\ o.status = 409 => o.items = items

\* C12 happens: a Note inside a folder is renamed to the name of a Note
\* beside it
C12_Witness ==
    \E req \in RenameRequests :
        \E o \in Handle(items, nextId, req) :
            /\ o.status = 409 /\ o.parent # Null
            /\ \E i, j \in ItemsNamed(items, req.user, req.newName, o.parent)
                             \cup ItemsNamed(items, req.user, req.oldName, o.parent) :
                  /\ i # j
                  /\ items[i].type = "note" /\ items[j].type = "note"
                  /\ items[i].name = req.oldName /\ items[j].name = req.newName

\* C13: a renameFVItem that answers 200 changes the name of one Item, an
\* Item of the caller that had the name oldName under the resolved parent,
\* and nothing else: its other fields and every other Item are as before.
C13_RenameChangesOnlyName ==
    \A req \in RenameRequests :
        \A o \in Handle(items, nextId, req) :
            o.status = 200 =>
                LET s == ResolvePath(items, req.user, req.path, 1, Null, 0)
                IN /\ s.found
                   /\ o.target \in ItemsNamed(items, req.user, req.oldName, LastId(s.folderIds))
                   /\ req.newName # req.oldName
                   /\ o.items = [items EXCEPT ![o.target].name = req.newName]

\* C13 happens: a Note with content, inside a folder, is renamed
C13_Witness ==
    \E req \in RenameRequests :
        \E o \in Handle(items, nextId, req) :
            /\ o.status = 200
            /\ items[o.target].fileContent # ""
            /\ items[o.target].parentFolder # Null
            /\ o.items[o.target].name # items[o.target].name

\* renameFVItem and updateNote requests with a path, at every instant
NoteChangingRequests ==
    {[req EXCEPT !.now = t] : req \in RenameRequests, t \in Times}
    \cup {req \in UpdateNoteRequests(Owner, FolderNames, Times) : req.hasPath}

\* the outcome changed the name or the content of the Note it found
ChangedNote(o) ==
    /\ o.status = 200
    /\ o.target \in DOMAIN items
    /\ items[o.target].type = "note"
    /\ \/ o.items[o.target].name # items[o.target].name
       \/ o.items[o.target].fileContent # items[o.target].fileContent

\* no request changes the lastEdited of a Folder that exists
FolderStampsKept ==
    \A req \in Requests(Owner, FolderNames, Times) \cup NoteChangingRequests :
        \A o \in Handle(items, nextId, req) :
            \A i \in DOMAIN items \cap DOMAIN o.items :
                items[i].type = "folder" => o.items[i].lastEdited = items[i].lastEdited

\* C14: a renameFVItem or updateNote that changes the name or the content of
\* a Note leaves that Note with lastEdited equal to the instant of the
\* request; the lastEdited of a Folder never changes after its creation.
C14_NoteChangeSetsLastEdited ==
    /\ FolderStampsKept
    /\ \A req \in NoteChangingRequests :
          \A o \in Handle(items, nextId, req) :
              ChangedNote(o) => o.items[o.target].lastEdited = req.now

\* C14 without renameFVItem: updateNote sets lastEdited, Folders keep theirs
C14_ExceptRename ==
    /\ FolderStampsKept
    /\ \A req \in NoteChangingRequests :
          \A o \in Handle(items, nextId, req) :
              req.op = "updateNote" /\ ChangedNote(o) =>
                  o.items[o.target].lastEdited = req.now

\* store with the document doc inserted as id under parent (a folder id or
\* Null): the id is appended to the children of a parent that is a folder
WithChild(store, id, doc, parent) ==
    [i \in DOMAIN store \cup {id} |->
        IF i = id THEN doc
        ELSE IF i = parent THEN [store[i] EXCEPT !.children = Append(@, id)]
        ELSE store[i]]

\* newNote requests with a path, at every instant
NewNoteWithPath == {req \in NewNoteRequests(Owner, FolderNames, Times) : req.hasPath}

\* C15: newNote whose path resolves to the parent P answers 200 whatever is
\* under P: it inserts one Note named "Untitled" with empty content, empty
\* children and parentFolder P (null for the root) and appends its id to the
\* children of P when P is a folder, changing nothing else; the same request
\* again does the same, so that two more Notes named "Untitled" are under P.
C15_NewNoteAlwaysSucceeds ==
    \A req \in NewNoteWithPath :
        LET s == ResolvePath(items, req.user, req.path, 1, Null, 0)
            P == LastId(s.folderIds)
            note(t) == NewDoc(req.user, Untitled, P, "note", t)
            once == WithChild(items, nextId, note(req.now), P)
        IN s.found => \A o \in Handle(items, nextId, req) :
              /\ o.status = 200
              /\ o.items = once
              /\ \A again \in Handle(o.items, nextId + 1, req) :
                    /\ again.status = 200
                    /\ again.items = WithChild(once, nextId + 1, note(req.now), P)
                    /\ ItemsNamed(again.items, req.user, Untitled, P)
                          = ItemsNamed(items, req.user, Untitled, P) \cup {nextId, nextId + 1}

\* C15 happens: a Note is created in a folder that holds a Note named
\* "Untitled" already
C15_Witness ==
    \E req \in NewNoteWithPath :
        \E o \in Handle(items, nextId, req) :
            /\ o.status = 200 /\ o.parent # Null
            /\ \E i \in ItemsNamed(items, req.user, Untitled, o.parent) :
                  items[i].type = "note"

\* updateNote requests with a path and titles that pass the title checks,
\* at every instant
UpdateRequests ==
    {req \in UpdateNoteRequests(Owner, FolderNames, Times) :
        req.hasPath /\ ~UpdateTitleRejected(req.newName, req.oldName)}

\* the Notes of user u named name under parent
NotesNamed(store, u, name, parent) ==
    {i \in ItemsNamed(store, u, name, parent) : store[i].type = "note"}

\* C16: updateNote with accepted titles whose path resolves to the parent P
\* answers 200 when a Note named oldTitle is under P, whatever else is named
\* newTitle there: one write sets fileContent, name and lastEdited of one
\* such Note and nothing else changes.  When only a Folder, or nothing, has
\* the name oldTitle under P it answers 404 and nothing changes.
C16_UpdateNoteSetsOneNote ==
    \A req \in UpdateRequests :
        LET s == ResolvePath(items, req.user, req.path, 1, Null, 0)
            notes == NotesNamed(items, req.user, req.oldName, LastId(s.folderIds))
        IN s.found => \A o \in Handle(items, nextId, req) :
              IF notes = {}
              THEN o.status = 404 /\ o.items = items
              ELSE /\ o.status = 200
                   /\ o.writes = 1
                   /\ o.target \in notes
                   /\ o.items = [items EXCEPT ![o.target].fileContent = req.content,
                                              ![o.target].name = req.newName,
                                              ![o.target].lastEdited = req.now]

\* C16 happens: a Note inside a folder gets the name a sibling has already
C16_Witness ==
    \E req \in UpdateRequests :
        \E o \in Handle(items, nextId, req) :
            /\ o.status = 200 /\ o.parent # Null
            /\ req.newName # req.oldName /\ req.now = 1
            /\ ItemsNamed(items, req.user, req.newName, o.parent) # {}

\* a folder's children list holds an id that has no document
Dangling(store, f) ==
    \E k \in 1..Len(store[f].children) : store[f].children[k] \notin DOMAIN store

\* the deleteFVItem requests that find a folder from which a children list
\* with such an id can be reached, with the folder found
DanglingDeletions ==
    {<<req, A>> \in DeleteFVItemRequests(Owner, FaultNames) \X DOMAIN items :
        /\ A \in DeleteTargets(items, req)
        /\ items[A].type = "folder"
        /\ \E f \in Subtree(items, {A}) : Dangling(items, f)}

\* C17: deleteFVItem on a folder A, when the children list of A or of a
\* folder reachable from A through children lists holds ids without a
\* document, answers 200, and afterwards A and every Item reachable from A
\* through children lists have no document, every other Item is as it was
\* but for the former parent of A, whose children lost A.
C17_DanglingChildrenAreSkipped ==
    \A d \in DanglingDeletions :
        LET req == d[1]
            A == d[2]
            gone == Subtree(items, {A})
            parent == items[A].parentFolder
        IN \A o \in Handle(items, nextId, req) :
              o.target = A =>
                 /\ o.status = 200
                 /\ DOMAIN o.items = DOMAIN items \ gone
                 /\ \A i \in DOMAIN o.items :
                       o.items[i] = IF i = parent
                                    THEN [items[i] EXCEPT !.children = Without(@, A)]
                                    ELSE items[i]

\* C17 happens: the children of the deleted folder hold an id without a
\* document ahead of the id of an Item
C17_Witness ==
    \E d \in DanglingDeletions :
        \E o \in Handle(items, nextId, d[1]) :
            LET children == items[d[2]].children
            IN /\ o.target = d[2] /\ o.status = 200
               /\ \E j, k \in 1..Len(children) :
                     /\ j < k
                     /\ children[j] \notin DOMAIN items
                     /\ children[k] \in DOMAIN items

\* C17 happens below the deleted folder as well: the id without a document
\* is in the children of a folder inside it
C17_WitnessBelow ==
    \E d \in DanglingDeletions :
        /\ ~Dangling(items, d[2])
        /\ \E o \in Handle(items, nextId, d[1]) : o.target = d[2] /\ o.status = 200

\* the folders that path resolves to, segment after segment, in the loop
\* of newFolder, newNote, updateNote and getNote, and in the loop of
\* renameFVItem and deleteFVItem
Chains(store, u, path) ==
    {r.folderIds : r \in ResolveSegments(store, u, path, 1, <<>>, 0)}

ChainsByIndex(store, u, path) ==
    {r.folderIds : r \in ResolveByIndex(store, u, path, 2, <<>>, 0)}

\* C18: in every state reached by tree operations, each resolver loop
\* resolves each path to one chain of ids, and no segment has two folders to
\* choose from.  (An invariant of Spec, where requests run one at a time;
\* not of SpecCalls, where two newFolder requests can both pass the
\* folderExists check before either saves.)
C18_ResolutionIsDeterministic ==
    \A path \in Paths(FolderNames) :
        /\ Cardinality(Chains(items, "u1", path)) = 1
        /\ Cardinality(ChainsByIndex(items, "u1", path)) = 1
        /\ \A k \in 2..Len(path) : \A parent \in DOMAIN items \cup {Null} :
              Cardinality(FolderByName(items, "u1", path[k], parent)) <= 1

\* with requests run one at a time: a path of two folders resolves while a
\* Note has the name of its last segment next to the folder
C18_Witness ==
    \E path \in Paths(FolderNames) :
        /\ Len(path) = 3
        /\ \E r \in ResolveSegments(items, "u1", path, 1, <<>>, 0) :
              /\ r.found
              /\ \E n \in DOMAIN items :
                    /\ items[n].type = "note"
                    /\ items[n].name = path[3]
                    /\ items[n].parentFolder = r.folderIds[2]

\* the requests reqs[k], reqs[k + 1], ... run one after the other from
\* store: the outcomes, request by request
RECURSIVE Runs(_, _, _, _)
Runs(store, id, reqs, k) ==
    IF k > Len(reqs) THEN {<<>>}
    ELSE UNION {{<<o>> \o rest
                 : rest \in Runs(o.items, IF id \in DOMAIN o.items THEN id + 1 ELSE id,
                                 reqs, k + 1)}
                : o \in Handle(store, id, reqs[k])}

\* the listing o shows no folder and one file, named Homework with the
\* content 2+2=4
ListsHomeworkOnly(o) ==
    /\ o.folders = <<>>
    /\ Len(o.files) = 1
    /\ o.items[o.files[1]].name = Homework
    /\ o.items[o.files[1]].fileContent = "2+2=4"
    /\ o.items[o.files[1]].type = "note"

\* the listing o shows no folder named Math and owner u has no Item
ListsNothingLeft(o, u) ==
    /\ \A k \in 1..Len(o.folders) : o.items[o.folders[k]].name # Math
    /\ Restrict(o.items, u) = <<>>

\* C19: when an owner has no Item, the requests of Scenario of that owner
\* run one after the other answer 200 each, the listing of Math shows no
\* folder and the one file Homework with content 2+2=4, the last listing
\* shows no folder Math, and no Item of the owner is left.
C19_ScenarioSucceeds ==
    \A u \in Users :
        Restrict(items, u) = <<>> =>
            \A now \in Times : \A run \in Runs(items, nextId, Scenario(u, now), 1) :
                /\ \A k \in 1..7 : run[k].status = 200
                /\ ListsHomeworkOnly(run[5])
                /\ ListsNothingLeft(run[7], u)

\* C19 happens: the first four requests of Scenario have led from the empty
\* tree to the folder Math holding the note Homework, and the last three
\* lead on to the empty store
C19_Witness ==
    /\ nextId = 3
    /\ DOMAIN items = {1, 2}
    /\ items[1].name = Math /\ items[1].children = <<2>>
    /\ items[2].name = Homework /\ items[2].fileContent = "2+2=4"
    /\ items[1].userId = "u1" /\ items[2].userId = "u1"
    /\ \E run \in Runs(items, nextId, SubSeq(Scenario("u1", 0), 5, 7), 1) :
          /\ \A k \in 1..3 : run[k].status = 200
          /\ ListsHomeworkOnly(run[1])
          /\ ListsNothingLeft(run[3], "u1")

\* the deleteFVItem requests that find a folder, with the folder found
FolderTargets ==
    {<<req, A>> \in DeleteFVItemRequests(Owner, FolderNames) \X DOMAIN items :
        A \in DeleteTargets(items, req) /\ items[A].type = "folder"}

\* the deletion write by write ends in the collection the handler leaves,
\* after as many writes
DeleteWritesAgree ==
    \A req \in DeleteFVItemRequests(Owner, FolderNames) :
        \A A \in DeleteTargets(items, req) :
            LET w == DeleteWrites(items, req.user, A)
            IN \E o \in Handle(items, nextId, req) :
                  o.target = A /\ o.items = Latest(w) /\ o.writes = Len(w) - 1

\* in the collection now, reached from store: every Item among sub has its
\* parent, and no children list holds the id of a deleted folder
NoneOutlivesItsFolder(store, now, sub, A) ==
    /\ \A i \in (sub \cap DOMAIN now) \ {A} : store[i].parentFolder \in DOMAIN now
    /\ \A f \in DOMAIN now : \A c \in Range(now[f].children) :
          c \notin DOMAIN now => store[c].type = "note"

\* the folders among sub deleted by the write that leads from before to
\* after had no child left and were in no children list
FoldersGoLast(store, before, after, sub) ==
    \A f \in (sub \cap DOMAIN before) \ DOMAIN after :
        store[f].type = "folder" =>
            /\ \A c \in Range(store[f].children) : c \notin DOMAIN before
            /\ \A g \in DOMAIN before : Positions(before[g].children, f) = {}

\* C20: while deleteFVItem deletes a folder A, no other request running,
\* each write that deletes a folder of the subtree comes after the deletion
\* of every document in its children and after the pull of its id from its
\* parent; so after each write every surviving Item of the subtree has its
\* parent folder, and no children list refers to a deleted folder.
C20_ChildrenGoBeforeTheirFolder ==
    \A d \in FolderTargets :
        LET A == d[2]
            w == DeleteWrites(items, d[1].user, A)
            sub == Subtree(items, {A})
        IN /\ \A j \in 1..Len(w) : NoneOutlivesItsFolder(items, w[j], sub, A)
           /\ \A j \in 1..(Len(w) - 1) : FoldersGoLast(items, w[j], w[j + 1], sub)
           /\ DOMAIN Latest(w) = DOMAIN items \ sub

\* C20 happens: the folder deleted holds a folder that holds an Item, so the
\* deletion makes four writes at least
C20_Witness ==
    \E d \in FolderTargets :
        /\ Len(DeleteWrites(items, d[1].user, d[2])) >= 5
        /\ \E B \in DOMAIN items :
              /\ items[B].parentFolder = d[2]
              /\ items[B].type = "folder"
              /\ items[B].children # <<>>

\* the creations and the deletions of SpecFaults
CreationRequests ==
    NewFolderRequests(Owner, FaultNames, Now) \cup NewNoteRequests(Owner, FaultNames, Now)

\* what a request stopped by a store failure leaves behind
Failing(store, id, req) ==
    CASE req.op = "newFolder"    -> NewFolderFailing(store, id, req)
      [] req.op = "newNote"      -> NewNoteFailing(store, id, req)
      [] req.op = "deleteFVItem" -> DeleteFVItemFailing(store, req)

\* seq without the elements outside S
Keeping(seq, S) ==
    LET Kept(x) == x \in S
    IN SelectSeq(seq, Kept)

\* doc is old but for ids among sub that its children lost
SameButPulled(doc, old, sub) ==
    /\ [doc EXCEPT !.children = <<>>] = [old EXCEPT !.children = <<>>]
    /\ doc.children = Keeping(old.children, Range(doc.children))
    /\ Range(old.children) \ Range(doc.children) \subseteq sub

\* C21: a creation or a deletion stopped by a store failure answers 500 and
\* leaves the writes made until then, nothing more and nothing undone.  A
\* creation under a folder whose append fails leaves what the successful
\* request leaves but for the parent's children, which are as before: the
\* new Item has its parentFolder and is in no children list.  A deletion
\* that fails leaves a part of the documents of the subtree deleted, and the
\* others as they were but for ids of the subtree pulled from children.
C21_FailureKeepsTheWritesMade ==
    /\ \A req \in CreationRequests :
          /\ \A o \in Failing(items, nextId, req) :
                /\ o.status = 500
                /\ o.writes <= 1
                /\ o.writes = 0 => o.items = items
                /\ o.writes = 1 =>
                      /\ DOMAIN o.items = DOMAIN items \cup {nextId}
                      /\ \A i \in DOMAIN items : o.items[i] = items[i]
                      /\ o.items[nextId].parentFolder \in DOMAIN items
                      /\ \A f \in DOMAIN o.items : Positions(o.items[f].children, nextId) = {}
          /\ \A ok \in Handle(items, nextId, req) :
                ok.status = 200 /\ ok.writes = 2 =>
                    \E o \in Failing(items, nextId, req) :
                        o.items = [ok.items EXCEPT ![ok.parent] = items[ok.parent]]
    /\ \A req \in DeleteFVItemRequests(Owner, FaultNames) :
          /\ \A o \in Failing(items, nextId, req) :
                LET sub == Subtree(items, {o.target})
                IN /\ o.status = 500
                   /\ o.target \in DeleteTargets(items, req)
                   /\ DOMAIN o.items \subseteq DOMAIN items
                   /\ DOMAIN items \ DOMAIN o.items \subseteq sub
                   /\ items[o.target].type = "folder" => o.target \in DOMAIN o.items
                   /\ \A i \in DOMAIN o.items : SameButPulled(o.items[i], items[i], sub)
          /\ \A ok \in Handle(items, nextId, req) :
                ok.status = 200 =>
                    \A n \in 0..(ok.writes - 1) :
                        \E o \in Failing(items, nextId, req) :
                            o.target = ok.target /\ o.writes = n

\* C21 happens: a folder holds a folder, so that a creation in it can fail
\* after the save and its deletion can fail after two writes
C21_Witness ==
    /\ \E req \in CreationRequests : \E o \in Failing(items, nextId, req) :
          o.writes = 1 /\ nextId <= MaxId
    /\ \E req \in DeleteFVItemRequests(Owner, FaultNames) :
          \E o \in Failing(items, nextId, req) :
              o.writes = 2 /\ DOMAIN o.items # DOMAIN items

\* C21 has happened: an Item has a parentFolder whose children do not hold it
C21_WitnessOrphan ==
    \E i, f \in DOMAIN items :
        /\ items[i].parentFolder = f
        /\ Positions(items[f].children, i) = {}

\* a request is under way; a handler has returned without a response
UnderWay == procs # EmptyBag
Unanswered == \E p \in BagToSet(procs) : p.call = "none"

\* C22: every store call completing, every request of the seven routes is
\* answered once, sooner or later: a request under way leads to no request
\* under way.  (Violated: newFolder returns without a response when a
\* segment of its path has no folder.)
C22_EveryRequestIsAnswered == UnderWay ~> ~UnderWay

\* what holds: a request under way is answered in every behaviour in which
\* no handler returns without a response
C22_UnlessUnanswered == ([]~Unanswered) => (UnderWay ~> ~UnderWay)

\* every Item of store with a parentFolder has a folder with that id
ParentsExist(store) ==
    \A i \in DOMAIN store :
        store[i].parentFolder # Null =>
            /\ store[i].parentFolder \in DOMAIN store
            /\ store[store[i].parentFolder].type = "folder"

\* C23: newFolder and newNote requests interleaved store call by store call
\* with deleteFVItem requests of the same owner: once no request is under
\* way, every Item with a parentFolder has that folder.  (Violated: a
\* creation that has read its parent saves its document after the deletion
\* of the parent.)
C23_NoItemOutlivesItsFolder == procs = EmptyBag => ParentsExist(items)

\* the folders of user u named name under parent
FoldersCalled(store, u, name, parent) ==
    {i \in DOMAIN store : /\ store[i].userId = u
                          /\ store[i].type = "folder"
                          /\ store[i].name = name
                          /\ store[i].parentFolder = parent}

\* C24: newFolder and renameFVItem requests of one owner interleaved store
\* call by store call: once no request is under way, a parent holds at most
\* one Folder of a name (so of two requests that give one name under one
\* parent at most one has answered 200).  (Violated: both requests run
\* their existence query before either writes.)
C24_OneFolderPerName ==
    procs = EmptyBag =>
        \A u \in Users : \A name \in CallNames : \A parent \in DOMAIN items \cup {Null} :
            Cardinality(FoldersCalled(items, u, name, parent)) <= 1

\* the listings under way
Listings == {p \in BagToSet(procs) : p.req.op = "getFVItems"}

\* C25: getFVItems requests interleaved store call by store call with
\* deleteFVItem requests of the same owner: no listing under way answers
\* 500 at its next call.  (Violated: a child deleted after the listing read
\* the children of its folder is pushed as null and read as item.type.)
C25_ListingNeverAnswers500 ==
    \A p \in Listings : \A s \in ListCall(items, p) : s.status # 500

\* a listing alone, from arrival to response, answers what the handler in
\* one step answers
RECURSIVE ListOn(_, _)
ListOn(store, p) ==
    UNION { IF s.status = Running THEN ListOn(store, s.proc) ELSE {s.status}
            : s \in ListCall(store, p) }

ListCallsAgree ==
    \A req \in ListRequests :
        LET s == ListArrival(items, req)
        IN (IF s.status = Running THEN ListOn(items, s.proc) ELSE {s.status})
               = {o.status : o \in Handle(items, nextId, req)}

\* the ids met by following parentFolder from i, i left out
RECURSIVE Above(_, _, _)
Above(store, i, seen) ==
    LET up == store[i].parentFolder
    IN IF up = Null \/ up \notin DOMAIN store \/ up \in seen THEN seen
       ELSE Above(store, up, seen \cup {up})

\* no Item of store is above or below itself
NoCycle(store) ==
    \A i \in DOMAIN store :
        /\ i \notin Above(store, i, {})
        /\ i \notin Subtree(store, Range(store[i].children))

\* C26: with creations interleaved store call by store call and the other
\* requests between their calls, no Item is reached again
\* by following parentFolder from it or children from it; so the parent
\* walk of getNotePath ends within as many rounds as there are documents,
\* and the recursion of deleteFolderRecursively visits a finite subtree.
C26_NoFolderInsideItself ==
    /\ NoCycle(items)
    /\ \A i \in DOMAIN items :
          ParentWalkEnds(items, items[i].userId, items[i].parentFolder,
                         Cardinality(DOMAIN items))

\* C26 happens: a folder holds a folder while a request is under way
C26_Witness ==
    /\ procs # EmptyBag
    /\ \E i, f \in DOMAIN items :
          /\ items[i].parentFolder = f
          /\ items[i].type = "folder"
          /\ Positions(items[f].children, i) # {}

\* ------------------------------------------------------------------ C27
\* the requests the specification lists as answered with BadRequest
BadRequestListed(req) ==
    CASE req.op = "newFolder"    -> req.oldName \in {"", Root}
      [] req.op = "renameFVItem" -> req.newName = Root
      [] req.op = "deleteFVItem" -> req.oldName = Root
      [] req.op = "getFVItems"   -> ~req.hasPath \/ req.oldName \in {Undefined, ""}
      [] req.op = "newNote"      -> ~req.hasPath
      [] req.op = "updateNote"   -> \/ ~req.hasPath
                                    \/ req.newName \in {"", Root}
                                    \/ req.oldName = ""

\* C27: a tree operation answers 400 for the listed requests and for no
\* other, and a 400 is answered before any store call: the handler has read
\* nothing, has written nothing and leaves the collection as it was.
C27_BadRequestBeforeAnyStoreCall ==
    \A req \in TreeRequests :
        \A o \in Handle(items, nextId, req) :
            /\ BadRequestListed(req) <=> o.status = 400
            /\ o.status = 400 => o.reads = 0 /\ o.writes = 0 /\ o.items = items

\* C27 happens: an updateNote request names a Note that is there, inside a
\* folder its path resolves to, and is answered 400 for its new title
C27_Witness ==
    \E req \in UpdateNoteRequests(Owner, FolderNames, Now) :
        /\ req.hasPath /\ Len(req.path) = 2 /\ req.newName = Root
        /\ LET s == ResolvePath(items, req.user, req.path, 1, Null, 0)
           IN /\ s.found /\ s.reads = 1
              /\ NoteByName(items, req.user, req.oldName, LastId(s.folderIds)) # {}
        /\ \E o \in Handle(items, nextId, req) : o.status = 400 /\ o.reads = 0

\* ------------------------------------------------------------------ C28
\* C28: getFVItems, whatever it answers, and every tree operation that
\* answers 404 or 409 have written nothing: the collection after the request
\* is the collection before it.
C28_RefusalsAndListingsWriteNothing ==
    \A req \in TreeRequests :
        \A o \in Handle(items, nextId, req) :
            req.op = "getFVItems" \/ o.status \in {404, 409} =>
                o.writes = 0 /\ o.items = items

\* C28 happens: a rename finds its target and is answered 409 for a name
\* the target does not have, and a listing answers with an Item
C28_Witness ==
    /\ \E req \in RenameFVItemRequests(Owner, FolderNames) :
           \E o \in Handle(items, nextId, req) :
               /\ o.status = 409 /\ o.target # Null
               /\ items[o.target].name # req.newName
    /\ \E req \in GetFVItemsRequests(Owner, FolderNames) :
           \E o \in Handle(items, nextId, req) :
               o.status = 200 /\ Len(o.folders) + Len(o.files) > 0

\* ------------------------------------------------------------------ C29
\* the requests that give a name: newFolder, renameFVItem (the empty new
\* name included) and updateNote
NamingRequests ==
    UNION {NewFolderRequests(Owner, FolderNames, Now), RenameRequests,
           UpdateNoteRequests(Owner, FolderNames, Now)}

NoEmptyName(store) == \A i \in DOMAIN store : store[i].name # ""

\* C29: no Item has the empty name, and no newFolder, renameFVItem or
\* updateNote request leaves an Item with the empty name behind.
C29_NoEmptyName ==
    /\ NoEmptyName(items)
    /\ \A req \in NamingRequests :
           \A o \in Handle(items, nextId, req) : NoEmptyName(o.items)

\* C29 for newFolder and updateNote, which test the length of the name
C29_ExceptRename ==
    /\ NoEmptyName(items)
    /\ \A req \in NamingRequests :
           req.op # "renameFVItem" =>
               \A o \in Handle(items, nextId, req) : NoEmptyName(o.items)

\* ------------------------------------------------------------------ C30
\* the Notes a request answered with 200 has found
Found(store, id, req) ==
    {o.target : o \in {x \in Handle(store, id, req) : x.status = 200}}

\* the updateNote request for the Note that the getNote request req names
UpdateOf(req) ==
    Request("updateNote", req.user, [hasPath |-> TRUE, path |-> req.path],
            req.oldName, req.oldName, "", 0)

\* getNote, for a path that resolves to the parent P: a 200 carries a Note
\* of the caller with the title asked for and with parent P, the answer is
\* 404 when P holds no such Note, and the Notes getNote can return are
\* those updateNote with the same path and oldTitle can update
GetNoteAgrees(req) ==
    LET s == ResolvePath(items, req.user, req.path, 1, Null, 0)
        there == NoteByName(items, req.user, req.oldName, LastId(s.folderIds))
    IN s.found =>
          /\ \A o \in Handle(items, nextId, req) :
                 /\ o.status = 200 => o.target \in there /\ o.files = <<o.target>>
                 /\ there = {} => o.status = 404
          /\ Found(items, nextId, req) = Found(items, nextId, UpdateOf(req))

\* C30: getNote returns only a Note named T under the folder its path
\* resolves to, under the root for the path ["root"], answers 404 when there
\* is none, and finds the Note updateNote would update.
C30_GetNoteFindsTheNoteAtPath ==
    \A req \in GetNoteRequests(Owner, FolderNames) :
        req.hasPath /\ req.path # <<>> => GetNoteAgrees(req)

\* C30 for paths of two segments and more
C30_BelowTheRoot ==
    \A req \in GetNoteRequests(Owner, FolderNames) :
        req.hasPath /\ Len(req.path) >= 2 => GetNoteAgrees(req)

====
